---- MODULE Spec2Model ----
(***************************************************************************)
(* State-machine model of the huachuca authentication core:                *)
(*   - the refresh session store (refresh_token.go) and the refresh        *)
(*     endpoint (handleRefreshToken),                                      *)
(*   - the OAuth state store (state_store.go),                             *)
(*   - the authentication middleware (RequireAuth),                        *)
(*   - the organizations and users tables and their transactions,          *)
(*   - the OAuth callback handler (handleGoogleCallback).                  *)
(* Time is counted in seconds.  Every SQL statement is one atomic step of  *)
(* the database; the Go code between two statements belongs to the step of *)
(* the statement that precedes it.                                         *)
(***************************************************************************)
EXTENDS Integers, Sequences, FiniteSets, TLC

\* ---------------------------------------------------------------- bounds
MaxReq == 3
MaxInFlight == 2
MaxFaults == 1
MaxCalls == 2
MaxStores == 2
MaxAuthReq == 2
MaxTokens == 2
MaxPerms == 2
MaxRestartReq == 2
MaxRestarts == 1
MaxTx == 2

\* ------------------------------------------------------- program constants
\* 7 * 24 * time.Hour, 5 * time.Minute, 15 * time.Minute, 15 * time.Minute
RefreshTokenTTL == 604800
StateTTL == 300
CleanupInterval == 900
AccessTokenTTL == 900
\* MaxSubAccounts: 5 of every organization the program creates
MaxSubAccounts == 5

UserIDs == {"u1", "u2"}
NoUser == "none"
NoToken == 0

VARIABLES now, refresh_tokens, rreq, faults,
          states, cleanup, nextTick, vcall, logical, stored,
          users, accessTokens, areq,
          pcall,
          keypair, issuedLog, tcall, atRestart,
          organizations, accounts, txs, callbacks

refreshVars == <<refresh_tokens, rreq, faults>>
clockVars == <<now>>
stateVars == <<states, cleanup, nextTick, vcall, logical, stored>>
authVars == <<users, accessTokens, areq>>
permVars == <<pcall>>
tokenVars == <<keypair, issuedLog, tcall, atRestart>>
orgVars == <<organizations, accounts, txs, callbacks>>
vars == <<now, refresh_tokens, rreq, faults, states, cleanup, nextTick, vcall, logical, stored,
          users, accessTokens, areq, pcall, keypair, issuedLog, tcall, atRestart,
          organizations, accounts, txs, callbacks>>

ReqIDs == 1..MaxReq

\* ------------------------------------------------------ pure functions

\* GenerateRefreshToken: 32 bytes of crypto/rand. Two draws never coincide: the
\* draw made for request r is the value r.
GenerateRefreshToken(r) == r

\* (variant) a digest that does not depend on the token
HashTokenOfNothing(token) == <<"sha256", NoToken>>

\* HashToken: SHA-256 of the token, hex encoded; injective on the modelled
\* tokens and never equal to a token.
HashToken(token) == <<"sha256", token>>

\* ------------------------------------------------------ SQL statements

\* (variant) the sweep keeps a row that expires at this very instant
CleanupExpiredBefore(rows, t) == {row \in rows : ~(row.expires_at < t)}

\* DELETE FROM refresh_tokens WHERE expires_at <= NOW()
CleanupExpiredTokens(rows, t) == {row \in rows : ~(row.expires_at <= t)}

\* (variant) a DELETE that removes nothing
KeepUserRows(rows, userID) == rows

\* (variant) a DELETE without its WHERE clause
DeleteEveryRow(rows, userID) == {}

\* DELETE FROM refresh_tokens WHERE user_id = $1
DeleteUserRows(rows, userID) == {row \in rows : row.user_id # userID}

\* DELETE FROM refresh_tokens WHERE token_hash = $1
DeleteHashRows(rows, tokenHash) == {row \in rows : row.token_hash # tokenHash}

\* (variant) a refresh_tokens table without UNIQUE(user_id)
InsertAllowedNoUnique(rows, row) == \A old \in rows : old.id # row.id

\* UNIQUE(user_id) and PRIMARY KEY(id) of the refresh_tokens table
InsertAllowed(rows, row) ==
    /\ \A old \in rows : old.user_id # row.user_id
    /\ \A old \in rows : old.id # row.id

\* (variant) the lookup without its token_hash condition
SelectAnyLive(rows, tokenHash, t) == {row \in rows : row.expires_at > t}

\* (variant) the lookup accepts a row at the very instant of its expiry
SelectByHashInclusive(rows, tokenHash, t) ==
    {row \in rows : row.token_hash = tokenHash /\ row.expires_at >= t}

\* SELECT * FROM refresh_tokens WHERE token_hash = $1 AND expires_at > NOW()
SelectByHash(rows, tokenHash, t) ==
    {row \in rows : row.token_hash = tokenHash /\ row.expires_at > t}

\* the rows of one user
UserRows(rows, userID) == {row \in rows : row.user_id = userID}

\* ------------------------------------------------------ requests
\* A request record holds the handler's local variables (arg: the presented
\* secret, user, token: the generated secret, expires), its position pc and its
\* response status, and for the properties below: after, the requests that had
\* finished when it started, prior, the user's rows when its
\* CreateRefreshToken call had swept the expired ones, err, the error the
\* database call returned to the handler, swept, the time of the running call's
\* latest CleanupExpiredTokens (0 once the request is answered), and lapsed, the rows that matched the presented
\* secret's hash and had expired when ValidateRefreshToken was called.

ErrRefreshTokenNotFound == "refresh token not found"
ErrRefreshTokenExpired == "refresh token expired"
\* an error of the database driver
ErrStore == "store error"
NoError == "nil"

IdleReq == [kind |-> "none", pc |-> "idle", arg |-> NoToken, user |-> NoUser,
            token |-> NoToken, expires |-> 0, status |-> 0, after |-> {},
            prior |-> {}, err |-> NoError, swept |-> 0, lapsed |-> {}]

Done(r) == rreq[r].pc = "done"
DoneSet == {r \in ReqIDs : Done(r)}
Started(r) == rreq[r].pc # "idle"

\* Request slots are taken in order.
InFlight == {r \in ReqIDs : rreq[r].pc \notin {"idle", "done"}}

CanStart(r) ==
    /\ rreq[r].pc = "idle"
    /\ \A q \in ReqIDs : q < r => Started(q)
    /\ Cardinality(InFlight) < MaxInFlight

\* Refresh secrets a client can present: the ones a finished call handed out,
\* and one that was never issued.
Presentable ==
    {NoToken} \cup {rreq[r].token : r \in {q \in DoneSet : rreq[q].status = 200}}

Set(r, rec) == rreq' = [rreq EXCEPT ![r] = rec]

Finish(r, st) == Set(r, [rreq[r] EXCEPT !.pc = "done", !.status = st, !.swept = 0])

\* (variant) every error of the database call is answered 401
ErrorStatusUnauthorized(err) == 401

\* the handlers' answer to an error of the database call: handleRefreshToken
\* answers ErrRefreshTokenNotFound and ErrRefreshTokenExpired with 401 and any
\* other error with 500; handleGoogleCallback answers every error with 500
ErrorStatus(err) ==
    IF err \in {ErrRefreshTokenNotFound, ErrRefreshTokenExpired} THEN 401 ELSE 500

\* the database call returns err and the handler answers it
Fail(r, err) ==
    Set(r, [rreq[r] EXCEPT !.pc = "done", !.status = ErrorStatus(err), !.err = err,
                            !.swept = 0])

\* the rows whose token_hash is tokenHash and whose expiry has passed at t
LapsedRows(rows, tokenHash, t) ==
    {row \in rows : row.token_hash = tokenHash /\ row.expires_at <= t}

\* ------------------------------------------------------ CreateRefreshToken

\* handleGoogleCallback, once the principal is known, calls
\* CreateRefreshToken(user.ID): CleanupExpiredTokens succeeded;
\* token := GenerateRefreshToken()
StartLogin(r, u) ==
    /\ CanStart(r)
    /\ refresh_tokens' = CleanupExpiredTokens(refresh_tokens, now)
    /\ Set(r, [IdleReq EXCEPT !.kind = "login", !.pc = "c_delete", !.user = u,
                              !.token = GenerateRefreshToken(r), !.after = DoneSet,
                              !.prior = UserRows(refresh_tokens', u), !.swept = now])
    /\ UNCHANGED <<clockVars, faults, stateVars, authVars, permVars, tokenVars, orgVars>>

\* handleRefreshToken after ValidateRefreshToken and GenerateToken:
\* CreateRefreshToken(user.ID): CleanupExpiredTokens succeeded;
\* token := GenerateRefreshToken()
CreateCleanup(r) ==
    /\ rreq[r].pc = "c_cleanup"
    /\ refresh_tokens' = CleanupExpiredTokens(refresh_tokens, now)
    /\ Set(r, [rreq[r] EXCEPT !.pc = "c_delete", !.token = GenerateRefreshToken(r),
                               !.prior = UserRows(refresh_tokens', rreq[r].user),
                               !.swept = now])
    /\ UNCHANGED <<clockVars, faults, stateVars, authVars, permVars, tokenVars, orgVars>>

\* DELETE ... WHERE user_id succeeded; ExpiresAt := time.Now().Add(7 days)
CreateDelete(r) ==
    /\ rreq[r].pc = "c_delete"
    /\ refresh_tokens' = DeleteUserRows(refresh_tokens, rreq[r].user)
    /\ Set(r, [rreq[r] EXCEPT !.pc = "c_insert", !.expires = now + RefreshTokenTTL])
    /\ UNCHANGED <<clockVars, faults, stateVars, authVars, permVars, tokenVars, orgVars>>

\* (variant) the row keeps the secret next to its hash
NewRowWithSecret(r) ==
    [id |-> <<"uuid", r>>, user_id |-> rreq[r].user,
     token_hash |-> HashToken(rreq[r].token), expires_at |-> rreq[r].expires,
     token |-> rreq[r].token]

NewRow(r) == [id |-> <<"uuid", r>>, user_id |-> rreq[r].user,
              token_hash |-> HashToken(rreq[r].token), expires_at |-> rreq[r].expires]

\* INSERT INTO refresh_tokens: a constraint violation is an error of the call,
\* which both handlers answer with 500; otherwise the token is returned (200)
CreateInsert(r) ==
    /\ rreq[r].pc = "c_insert"
    /\ IF InsertAllowed(refresh_tokens, NewRow(r))
       THEN /\ refresh_tokens' = refresh_tokens \cup {NewRow(r)}
            /\ Finish(r, 200)
       ELSE /\ refresh_tokens' = refresh_tokens
            /\ Fail(r, ErrStore)
    /\ UNCHANGED <<clockVars, faults, stateVars, authVars, permVars, tokenVars, orgVars>>

\* ------------------------------------------------------ ValidateRefreshToken

\* handleRefreshToken: POST with a decodable body carrying refresh_token = t;
\* ValidateRefreshToken: CleanupExpiredTokens succeeded; tokenHash := HashToken(t)
StartRefresh(r, t) ==
    /\ CanStart(r)
    /\ t \in Presentable
    /\ refresh_tokens' = CleanupExpiredTokens(refresh_tokens, now)
    /\ Set(r, [IdleReq EXCEPT !.kind = "refresh", !.pc = "v_select", !.arg = t,
                              !.after = DoneSet, !.swept = now,
                              !.lapsed = LapsedRows(refresh_tokens, HashToken(t), now)])
    /\ UNCHANGED <<clockVars, faults, stateVars, authVars, permVars, tokenVars, orgVars>>

\* GetContext(SELECT ...): no row gives ErrRefreshTokenNotFound, which
\* handleRefreshToken answers with 401. Otherwise GetUser(rt.UserID) reads the
\* users table, which no operation modelled here changes, and the handler goes
\* on to GenerateToken and CreateRefreshToken(user.ID).
ValidateSelect(r) ==
    /\ rreq[r].pc = "v_select"
    /\ LET found == SelectByHash(refresh_tokens, HashToken(rreq[r].arg), now)
       IN IF found = {}
          THEN Fail(r, ErrRefreshTokenNotFound)
          ELSE \E rt \in found :
                 Set(r, [rreq[r] EXCEPT !.pc = "c_cleanup", !.user = rt.user_id])
    /\ UNCHANGED <<refresh_tokens, clockVars, faults, stateVars, authVars, permVars, tokenVars, orgVars>>

\* ------------------------------------------------------ revocation

\* InvalidateUserRefreshTokens(u): one DELETE statement
InvalidateUserRefreshTokens(r, u) ==
    /\ CanStart(r)
    /\ refresh_tokens' = DeleteUserRows(refresh_tokens, u)
    /\ Set(r, [IdleReq EXCEPT !.kind = "revoke", !.pc = "done", !.user = u,
                              !.status = 200, !.after = DoneSet])
    /\ UNCHANGED <<clockVars, faults, stateVars, authVars, permVars, tokenVars, orgVars>>

\* ------------------------------------------------------ store failures

\* A statement of the durable store fails (connection lost, timeout): the
\* statement has no effect and the call returns its error.

Fault ==
    /\ faults < MaxFaults
    /\ faults' = faults + 1

\* CreateRefreshToken returns the error of CleanupExpiredTokens.
StartLoginCleanupFails(r, u) ==
    /\ CanStart(r)
    /\ Set(r, [IdleReq EXCEPT !.kind = "login", !.pc = "done", !.user = u,
                              !.status = ErrorStatus(ErrStore), !.err = ErrStore,
                              !.after = DoneSet])
    /\ Fault
    /\ UNCHANGED <<refresh_tokens, clockVars, stateVars, authVars, permVars, tokenVars, orgVars>>

\* ValidateRefreshToken returns the error of CleanupExpiredTokens, which is
\* neither ErrRefreshTokenNotFound nor ErrRefreshTokenExpired.
StartRefreshCleanupFails(r, t) ==
    /\ CanStart(r)
    /\ t \in Presentable
    /\ Set(r, [IdleReq EXCEPT !.kind = "refresh", !.pc = "done", !.arg = t,
                              !.status = ErrorStatus(ErrStore), !.err = ErrStore,
                              !.after = DoneSet,
                              !.lapsed = LapsedRows(refresh_tokens, HashToken(t), now)])
    /\ Fault
    /\ UNCHANGED <<refresh_tokens, clockVars, stateVars, authVars, permVars, tokenVars, orgVars>>

CreateCleanupFails(r) ==
    /\ rreq[r].pc = "c_cleanup"
    /\ Fail(r, ErrStore)
    /\ Fault
    /\ UNCHANGED <<refresh_tokens, clockVars, stateVars, authVars, permVars, tokenVars, orgVars>>

\* Any error of the SELECT is turned into ErrRefreshTokenNotFound.
SelectFails(r) ==
    /\ rreq[r].pc = "v_select"
    /\ Fail(r, ErrRefreshTokenNotFound)
    /\ Fault
    /\ UNCHANGED <<refresh_tokens, clockVars, stateVars, authVars, permVars, tokenVars, orgVars>>

\* The SELECT found the session and GetUser failed.
GetUserFails(r) ==
    /\ rreq[r].pc = "v_select"
    /\ SelectByHash(refresh_tokens, HashToken(rreq[r].arg), now) # {}
    /\ Fail(r, ErrStore)
    /\ Fault
    /\ UNCHANGED <<refresh_tokens, clockVars, stateVars, authVars, permVars, tokenVars, orgVars>>

DeleteFails(r) ==
    /\ rreq[r].pc = "c_delete"
    /\ Fail(r, ErrStore)
    /\ Fault
    /\ UNCHANGED <<refresh_tokens, clockVars, stateVars, authVars, permVars, tokenVars, orgVars>>

InsertFails(r) ==
    /\ rreq[r].pc = "c_insert"
    /\ Fail(r, ErrStore)
    /\ Fault
    /\ UNCHANGED <<refresh_tokens, clockVars, stateVars, authVars, permVars, tokenVars, orgVars>>

\* ------------------------------------------------------ clock

\* The instants the clock is observed at: the start, one second later, and
\* the instant a session created at the start expires.
Instants == {0, 1, RefreshTokenTTL}

AdvanceClock(t) ==
    /\ t > now
    /\ now' = t
    /\ UNCHANGED <<refreshVars, stateVars, authVars, permVars, tokenVars, orgVars>>

\* ------------------------------------------------------ OAuth state store

StateKeys == {"s1", "s2"}
CallIDs == 1..MaxCalls
NoKey == "none"

\* sync.Map as a function from the keys present to their stateEntry.expiresAt
MapStore(m, k, v) == [x \in (DOMAIN m) \cup {k} |-> IF x = k THEN v ELSE m[x]]
MapDelete(m, k) == [x \in (DOMAIN m) \ {k} |-> m[x]]
EmptyMap == [x \in {} |-> 0]

\* (variant) Load in place of LoadAndDelete: the entry stays
MapLoadOnly(m, k) == m

\* sync.Map.LoadAndDelete: what is left of the map
MapLoadAndDelete(m, k) == MapDelete(m, k)

\* (variant) the entry counts as expired at its expiry instant already
NotBefore(t, expiresAt) == t < expiresAt

\* !time.Now().After(entry.expiresAt)
NotAfter(t, expiresAt) == ~(t > expiresAt)

\* (variant) the sweep finds no entry expired
SweepNothing(t, expiresAt) == FALSE

\* now.After(entry.expiresAt) in the sweep
SweepExpired(t, expiresAt) == t > expiresAt

IdleCall == [key |-> NoKey, pc |-> "idle", found |-> FALSE, exp |-> 0,
             read |-> 0, result |-> FALSE, wasStored |-> FALSE, storedExp |-> 0,
             expected |-> FALSE]

IdleCleanup == [pc |-> "idle", now |-> 0, toVisit |-> {}, pending |-> NoKey]

StoreCount == stored["s1"] + stored["s2"]

\* StoreState(state, expiration): s.states.Store(state, {now + expiration});
\* handleGoogleLogin passes 5 minutes
StoreState(k) ==
    /\ StoreCount < MaxStores
    /\ states' = MapStore(states, k, now + StateTTL)
    /\ logical' = MapStore(logical, k, now + StateTTL)
    /\ stored' = [stored EXCEPT ![k] = @ + 1]
    /\ UNCHANGED <<cleanup, nextTick, vcall, now, refreshVars, authVars, permVars, tokenVars, orgVars>>

\* ValidateAndDeleteState(k), first half: s.states.LoadAndDelete(state)
ValidateLoad(c, k) ==
    /\ vcall[c].pc = "idle"
    /\ \A q \in CallIDs : q < c => vcall[q].pc # "idle"
    /\ vcall' = [vcall EXCEPT ![c] =
                   [IdleCall EXCEPT !.key = k, !.pc = "loaded",
                       !.found = (k \in DOMAIN states),
                       !.exp = IF k \in DOMAIN states THEN states[k] ELSE 0,
                       !.wasStored = (k \in DOMAIN logical),
                       !.storedExp = IF k \in DOMAIN logical THEN logical[k] ELSE 0]]
    /\ states' = MapLoadAndDelete(states, k)
    /\ logical' = MapDelete(logical, k)
    /\ UNCHANGED <<cleanup, nextTick, stored, now, refreshVars, authVars, permVars, tokenVars, orgVars>>

\* ValidateAndDeleteState, second half: the clock is read and compared
ValidateCheck(c) ==
    /\ vcall[c].pc = "loaded"
    /\ vcall' = [vcall EXCEPT ![c] =
                   [@ EXCEPT !.pc = "done", !.read = now,
                       !.result = (vcall[c].found /\ NotAfter(now, vcall[c].exp)),
                       !.expected = (vcall[c].wasStored /\ now <= vcall[c].storedExp),
                       !.wasStored = FALSE, !.storedExp = 0]]
    /\ UNCHANGED <<states, logical, cleanup, nextTick, stored, now, refreshVars, authVars, permVars, tokenVars, orgVars>>

\* periodicCleanup: the ticker fires; now := time.Now(); Range starts over the
\* keys present
CleanupTick ==
    /\ cleanup.pc = "idle"
    /\ now >= nextTick
    /\ nextTick' = ((now \div CleanupInterval) + 1) * CleanupInterval
    /\ cleanup' = [pc |-> "range", now |-> now, toVisit |-> DOMAIN states,
                   pending |-> NoKey]
    /\ UNCHANGED <<states, logical, vcall, stored, now, refreshVars, authVars, permVars, tokenVars, orgVars>>

\* Range hands the next key and its current value to the callback, which
\* compares the entry with the sweep's now
CleanupVisit(k) ==
    /\ cleanup.pc = "range"
    /\ cleanup.pending = NoKey
    /\ k \in cleanup.toVisit
    /\ cleanup' = [cleanup EXCEPT
                     !.toVisit = @ \ {k},
                     !.pending = IF k \in DOMAIN states /\ SweepExpired(cleanup.now, states[k])
                                 THEN k ELSE NoKey]
    /\ UNCHANGED <<states, logical, nextTick, vcall, stored, now, refreshVars, authVars, permVars, tokenVars, orgVars>>

\* the callback's s.states.Delete(key)
CleanupDelete ==
    /\ cleanup.pc = "range"
    /\ cleanup.pending # NoKey
    /\ states' = MapDelete(states, cleanup.pending)
    /\ cleanup' = [cleanup EXCEPT !.pending = NoKey]
    /\ UNCHANGED <<logical, nextTick, vcall, stored, now, refreshVars, authVars, permVars, tokenVars, orgVars>>

\* Range is over; the loop waits for the next tick
CleanupDone ==
    /\ cleanup.pc = "range"
    /\ cleanup.pending = NoKey
    /\ cleanup.toVisit = {}
    /\ cleanup' = IdleCleanup
    /\ UNCHANGED <<states, logical, nextTick, vcall, stored, now, refreshVars, authVars, permVars, tokenVars, orgVars>>

\* The instants the state store is observed at: the start, the first tick of
\* the cleanup ticker (an entry stored at the start has expired), and the
\* expiry instant of an entry stored at that tick.
StateInstants == {0, CleanupInterval, CleanupInterval + StateTTL}

AdvanceStateClock(t) ==
    /\ t > now
    /\ now' = t
    /\ UNCHANGED <<refreshVars, stateVars, authVars, permVars, tokenVars, orgVars>>

\* ------------------------------------------------------ permissions

PermCreateOrg == "create:org"
PermReadOrg == "read:org"
PermUpdateOrg == "update:org"
PermDeleteOrg == "delete:org"
PermInviteUser == "invite:user"
PermRemoveUser == "remove:user"
PermUpdateUser == "update:user"
PermManageSettings == "manage:settings"

AllPermissions ==
    {PermCreateOrg, PermReadOrg, PermUpdateOrg, PermDeleteOrg,
     PermInviteUser, PermRemoveUser, PermUpdateUser, PermManageSettings}

\* var RolePermissions = map[string][]Permission{...}
RolePermissions ==
    [role \in {"owner", "admin", "sub_account"} |->
        CASE role = "owner" ->
                <<PermCreateOrg, PermReadOrg, PermUpdateOrg, PermDeleteOrg,
                  PermInviteUser, PermRemoveUser, PermUpdateUser, PermManageSettings>>
          [] role = "admin" ->
                <<PermReadOrg, PermUpdateOrg, PermInviteUser, PermRemoveUser,
                  PermUpdateUser, PermManageSettings>>
          [] role = "sub_account" -> <<PermReadOrg>>]

\* u.Permissions[string(perm)] on a map[string]bool: the value stored under the
\* key, false when the key is absent (or the map is nil)
MapIndex(m, k) == IF k \in DOMAIN m THEN m[k] ELSE FALSE

\* (variant) only the role table is consulted
HasRolePermission(u, perm) ==
    /\ u.role \in DOMAIN RolePermissions
    /\ \E i \in 1..Len(RolePermissions[u.role]) : RolePermissions[u.role][i] = perm

\* (variant) the user's own map is consulted first and decides when it holds
\* the key
HasPermissionOverrideFirst(u, perm) ==
    IF perm \in DOMAIN u.permissions THEN u.permissions[perm]
    ELSE HasRolePermission(u, perm)

\* User.HasPermission: the role's list is searched, then the user's own map
HasPermission(u, perm) ==
    IF /\ u.role \in DOMAIN RolePermissions
       /\ \E i \in 1..Len(RolePermissions[u.role]) : RolePermissions[u.role][i] = perm
    THEN TRUE
    ELSE MapIndex(u.permissions, perm)

\* (variant) only the first permission of the list is looked at
HasFirstPermission(u, perms) == perms # <<>> /\ HasPermission(u, perms[1])

\* User.HasAnyPermission: returns true at the first permission held
RECURSIVE HasAnyPermission(_, _)
HasAnyPermission(u, perms) ==
    IF perms = <<>> THEN FALSE
    ELSE IF HasPermission(u, perms[1]) THEN TRUE
    ELSE HasAnyPermission(u, Tail(perms))

\* (variant) the required permissions are not looked at
PermissionsNotChecked(u, perms) == TRUE

\* User.HasAllPermissions: returns false at the first permission not held
RECURSIVE HasAllPermissions(_, _)
HasAllPermissions(u, perms) ==
    IF perms = <<>> THEN TRUE
    ELSE IF ~HasPermission(u, perms[1]) THEN FALSE
    ELSE HasAllPermissions(u, Tail(perms))

\* the users and permission lists the three functions are applied to
Roles == {"owner", "admin", "sub_account", "guest"}
OverrideKeys == {PermCreateOrg, PermReadOrg, PermInviteUser}
Overrides == UNION {[ks -> BOOLEAN] : ks \in SUBSET OverrideKeys}
PermUsers == [role : Roles, permissions : Overrides]
AskedPermissions == {PermCreateOrg, PermReadOrg, PermInviteUser, PermManageSettings}
PermLists == UNION {[1..n -> AskedPermissions] : n \in 0..MaxPerms}

\* each behaviour applies one of the functions once to one input
IdlePerm == [op |-> "none", user |-> [role |-> "", permissions |-> <<>>],
             perms |-> <<>>, result |-> FALSE]

CallHasPermission(u, perm) ==
    /\ pcall.op = "none"
    /\ pcall' = [op |-> "HasPermission", user |-> u, perms |-> <<perm>>,
                 result |-> HasPermission(u, perm)]
    /\ UNCHANGED <<now, refreshVars, stateVars, authVars, tokenVars, orgVars>>

CallHasAnyPermission(u, perms) ==
    /\ pcall.op = "none"
    /\ pcall' = [op |-> "HasAnyPermission", user |-> u, perms |-> perms,
                 result |-> HasAnyPermission(u, perms)]
    /\ UNCHANGED <<now, refreshVars, stateVars, authVars, tokenVars, orgVars>>

CallHasAllPermissions(u, perms) ==
    /\ pcall.op = "none"
    /\ pcall' = [op |-> "HasAllPermissions", user |-> u, perms |-> perms,
                 result |-> HasAllPermissions(u, perms)]
    /\ UNCHANGED <<now, refreshVars, stateVars, authVars, tokenVars, orgVars>>

\* ------------------------------------------------------ access tokens

\* The process's RSA key pair: NewTokenManager generates a new one each time
\* the process starts, keypair counts them. OtherKey is a key pair no process
\* generated.
ProcessKey == keypair
OtherKey == 0

Malformed == [kind |-> "malformed"]

\* a signed JWT: header alg, the key that signed it, and the Claims
JWT(alg, key, uid, org, role, iat) ==
    [kind |-> "jwt", alg |-> alg, key |-> key, user_id |-> uid,
     organization_id |-> org, role |-> role,
     exp |-> iat + AccessTokenTTL, iat |-> iat, nbf |-> iat]

\* (variant) the role of the claims is not the user's
GenerateTokenAsOwner(uid, user, t) ==
    JWT("RS256", ProcessKey, uid, user.organization_id, "owner", t)

\* GenerateToken(user): RS256 with the process's private key; ExpiresAt is 15
\* minutes after time.Now()
GenerateToken(uid, user, t) ==
    JWT("RS256", ProcessKey, uid, user.organization_id, user.role, t)

\* the *jwt.SigningMethodRSA methods
SigningMethodRSA == {"RS256", "RS384", "RS512"}

\* (variant) verification that does not look at the signing key
ValidateTokenAnyKey(tok, t) ==
    /\ tok.kind = "jwt"
    /\ tok.alg \in SigningMethodRSA
    /\ t < tok.exp
    /\ ~(t < tok.nbf)

\* (variant) verification that does not look at the expiry
ValidateTokenNoExpiry(tok, t) ==
    /\ tok.kind = "jwt"
    /\ tok.alg \in SigningMethodRSA
    /\ tok.key = ProcessKey
    /\ ~(t < tok.nbf)

\* (variant) verification that also asks for a refresh session of the user
ValidateTokenWithSession(tok, t) ==
    /\ tok.kind = "jwt"
    /\ tok.alg \in SigningMethodRSA
    /\ tok.key = ProcessKey
    /\ t < tok.exp
    /\ ~(t < tok.nbf)
    /\ UserRows(refresh_tokens, tok.user_id) # {}

\* ValidateToken: jwt.ParseWithClaims with the key function that accepts the
\* RSA methods and returns tm.publicKey; the parser then checks the signature,
\* exp (now before exp) and nbf (now not before nbf). TRUE when err = nil.
ValidateToken(tok, t) ==
    /\ tok.kind = "jwt"
    /\ tok.alg \in SigningMethodRSA
    /\ tok.key = ProcessKey
    /\ t < tok.exp
    /\ ~(t < tok.nbf)

\* the *Claims ValidateToken returns with a nil error
TokenClaims(tok) ==
    [user_id |-> tok.user_id, organization_id |-> tok.organization_id, role |-> tok.role]

NoClaims == [user_id |-> NoUser, organization_id |-> "none", role |-> ""]

\* ------------------------------------------------------ Authorization header
\* A header value is a sequence of pieces: the separator (one space character),
\* scheme words, and access tokens (which hold no space).

Space == [kind |-> "space"]

\* strings.Split(h, " "): the pieces between separators, each the
\* concatenation of the pieces it is made of
RECURSIVE SplitFrom(_, _, _)
SplitFrom(h, i, cur) ==
    IF i > Len(h) THEN <<cur>>
    ELSE IF h[i] = <<Space>> THEN <<cur>> \o SplitFrom(h, i + 1, <<>>)
    ELSE SplitFrom(h, i + 1, cur \o h[i])

Split(h) == SplitFrom(h, 1, <<>>)

\* pieces of a header: every piece is a one-element sequence, so that a token
\* and a word are never compared with each other
Word(w) == <<[kind |-> "word", text |-> w]>>
Tok(tok) == <<tok>>
Sp == <<Space>>

\* parts[1] as the token string: a single token piece, otherwise not a JWT
AsToken(part) == IF Len(part) = 1 /\ part[1].kind # "word" THEN part[1] ELSE Malformed

\* len(parts) == 2 && parts[0] == "Bearer"
BearerScheme(parts) == Len(parts) = 2 /\ parts[1] = Word("Bearer")

\* the header values a client sends with token tok
HeadersWith(tok) ==
    { <<Word("Bearer"), Sp, Tok(tok)>>,
      <<Word("bearer"), Sp, Tok(tok)>>,
      <<Word("Basic"), Sp, Tok(tok)>>,
      <<Word("Bearer"), Tok(tok)>>,
      <<Word("Bearer"), Sp, Sp, Tok(tok)>>,
      <<Tok(tok)>> }

HeadersWithout == { <<>>, <<Word("Bearer")>>, <<Word("Bearer"), Sp>> }

\* tokens the process never signed: garbage, a JWT signed with another key, and
\* an HS256 JWT keyed with the public key
ForgedTokens ==
    { Malformed,
      JWT("RS256", OtherKey, "u1", "o1", "owner", 0),
      JWT("HS256", ProcessKey, "u1", "o1", "owner", 0) }

\* ------------------------------------------------------ request paths
\* A URL path is a sequence of pieces: the separator "/", words, and texts of
\* organization IDs (which hold no "/").

Slash == [kind |-> "slash"]
Sl == <<Slash>>

\* the text of organization ID o: form "canonical" is what uuid.UUID.String()
\* prints; form "upper" is the same ID in upper case, which uuid.Parse reads too
UUIDText(o, form) == <<[kind |-> "uuid", id |-> o, form |-> form]>>

\* strings.Split(path, "/")
RECURSIVE SplitPathFrom(_, _, _)
SplitPathFrom(path, i, cur) ==
    IF i > Len(path) THEN <<cur>>
    ELSE IF path[i] = Sl THEN <<cur>> \o SplitPathFrom(path, i + 1, <<>>)
    ELSE SplitPathFrom(path, i + 1, cur \o path[i])

SplitPath(path) == SplitPathFrom(path, 1, <<>>)

\* uuid.Parse(text) returns no error
IsUUID(part) == Len(part) = 1 /\ part[1].kind = "uuid"

\* the ID uuid.Parse(text) returns
ParseUUID(part) == part[1].id

\* strings.Contains(path, "/organizations/")
ContainsOrganizations(path) ==
    \E i \in 1..Len(path) :
        /\ i + 2 <= Len(path)
        /\ path[i] = Sl /\ path[i + 1] = Word("organizations") /\ path[i + 2] = Sl

\* strings.HasPrefix(path, "/organizations/")
HasPrefixOrganizations(path) ==
    /\ Len(path) >= 3
    /\ path[1] = Sl /\ path[2] = Word("organizations") /\ path[3] = Sl

\* strings.HasSuffix(path, "/users")
HasSuffixUsers(path) ==
    /\ Len(path) >= 2
    /\ path[Len(path) - 1] = Sl /\ path[Len(path)] = Word("users")

\* the switch on r.URL.Path for the public endpoints: the handler of the case
\* the path matches, "none" when the switch has no case for it
PublicHandler(path) ==
    IF path = <<Sl, Word("health")>> THEN "handleHealth"
    ELSE IF path = <<Sl, Word(".well-known"), Sl, Word("jwks.json")>> THEN "handleJWKS"
    ELSE IF path = <<Sl, Word("auth"), Sl, Word("login"), Sl, Word("google")>>
    THEN "handleGoogleLogin"
    ELSE IF path = <<Sl, Word("auth"), Sl, Word("refresh")>> THEN "handleRefreshToken"
    ELSE IF path = <<Sl, Word("csrf"), Sl, Word("token")>> THEN "handleGetCSRFToken"
    ELSE "none"

PublicEndpoint(path) == PublicHandler(path) # "none"

\* "Basic request validation first": parts[2] of a path with /organizations/
\* must parse as a UUID unless it is empty or "users"
BasicValidation(path) ==
    LET parts == SplitPath(path)
    IN  (ContainsOrganizations(path) /\ Len(parts) >= 3
            /\ parts[3] # <<>> /\ parts[3] # Word("users"))
        => IsUUID(parts[3])

\* the switch of protectedHandler: the permissions of RequirePermissions,
\* whether RequireSameOrg is in the chain, and the endpoint handler
Route(path) ==
    IF path = <<Sl, Word("organizations")>>
    THEN [perms |-> <<PermCreateOrg>>, sameOrg |-> FALSE,
          handler |-> "handleCreateOrganization"]
    ELSE IF HasPrefixOrganizations(path) /\ HasSuffixUsers(path)
    THEN [perms |-> <<PermInviteUser>>, sameOrg |-> TRUE, handler |-> "handleAddUser"]
    ELSE IF HasPrefixOrganizations(path)
    THEN [perms |-> <<PermReadOrg>>, sameOrg |-> TRUE,
          handler |-> "handleGetOrganizationUsers"]
    ELSE [perms |-> <<>>, sameOrg |-> FALSE, handler |-> "NotFound"]

\* RequireSameOrg: the part after the first part "organizations"; "" when there
\* is none
TargetOrgID(path) ==
    LET parts == SplitPath(path)
        found == {i \in 1..Len(parts) : parts[i] = Word("organizations") /\ i + 1 <= Len(parts)}
    IN  IF ContainsOrganizations(path) /\ found # {}
        THEN parts[(CHOOSE i \in found : \A j \in found : i <= j) + 1]
        ELSE <<>>

\* (variant) the organization of the path is not compared
RequireAnyOrg(path, user) == TRUE

\* RequireSameOrg calls next: not (targetOrgID != "" &&
\* targetOrgID != user.OrganizationID.String())
RequireSameOrg(path, user) ==
    ~(TargetOrgID(path) # <<>>
        /\ TargetOrgID(path) # UUIDText(user.organization_id, "canonical"))

OrgIDs == {"o1", "o2"}

\* the paths requests are sent to
Paths ==
    { <<Sl, Word("organizations")>>,
      <<Sl, Word("organizations"), Sl>>,
      <<Sl, Word("organizations"), Sl, Word("users")>>,
      <<Sl, Word("organizations"), Sl, Sl, Word("users")>>,
      <<Sl, Word("organizations"), Sl, Word("not-a-uuid")>>,
      <<Sl, Word("organizations"), Sl, Word("not-a-uuid"), Sl, Word("users")>>,
      <<Sl, Word("organizations"), Sl, UUIDText("o1", "upper"), Sl, Word("users")>>,
      <<Sl, Word("other")>>,
      <<Sl, Word("health")>>,
      <<Sl, Word("auth"), Sl, Word("login"), Sl, Word("google")>>,
      <<Sl, Word("auth"), Sl, Word("callback"), Sl, Word("google")>> }
    \cup { <<Sl, Word("organizations"), Sl, UUIDText(o, "canonical")>> : o \in OrgIDs }
    \cup { <<Sl, Word("organizations"), Sl, UUIDText(o, "canonical"), Sl, Word("users")>> :
             o \in OrgIDs }

\* the role and permission map a user is updated to
Profiles ==
    { [role |-> "owner", permissions |-> <<>>],
      [role |-> "sub_account", permissions |-> <<>>],
      [role |-> "sub_account", permissions |-> [k \in {PermInviteUser} |-> TRUE]],
      [role |-> "sub_account", permissions |-> [k \in {PermCreateOrg} |-> TRUE]],
      [role |-> "guest", permissions |-> <<>>] }

\* ------------------------------------------------------ RequireAuth

AuthIDs == 1..MaxAuthReq

NoCtx == [organization_id |-> "none", role |-> "", permissions |-> <<>>]

\* invoked: RequireAuth called its next handler; ctxUser, ctx: the user put in
\* the request context; handler: the endpoint handler that was called
IdleAuth == [pc |-> "idle", path |-> <<>>, header |-> <<>>, user_id |-> NoUser,
             status |-> 0, body |-> "", invoked |-> FALSE, ctxUser |-> NoUser,
             ctx |-> NoCtx, handler |-> "none"]

InitUsers ==
    [u \in UserIDs |->
        IF u = "u1" THEN [organization_id |-> "o1", role |-> "owner", permissions |-> <<>>]
                    ELSE [organization_id |-> "o2", role |-> "sub_account",
                          permissions |-> <<>>]]

\* http.Error(w, body, st) before any handler was called
Respond(r, path, h, st, body) ==
    areq' = [areq EXCEPT ![r] = [IdleAuth EXCEPT !.pc = "done", !.path = path, !.header = h,
                                    !.status = st, !.body = body]]

\* a login issues an access token for a stored user
IssueAccessToken(u) ==
    /\ u \in DOMAIN users
    /\ Cardinality(accessTokens) < MaxTokens
    /\ accessTokens' = accessTokens \cup {GenerateToken(u, users[u], now)}
    /\ issuedLog' = issuedLog \cup
          {[token |-> GenerateToken(u, users[u], now), at |-> now, gen |-> keypair]}
    /\ UNCHANGED <<users, areq, now, refreshVars, stateVars, permVars,
                   keypair, tcall, atRestart, orgVars>>

\* the account is deleted from the users table
RemoveUser(u) ==
    /\ u \in DOMAIN users
    /\ users' = [x \in (DOMAIN users) \ {u} |-> users[x]]
    /\ UNCHANGED <<accessTokens, areq, now, refreshVars, stateVars, permVars, tokenVars, orgVars>>

\* the role and the permission map of a stored user are updated
UpdateUser(u, profile) ==
    /\ u \in DOMAIN users
    /\ users[u].role # profile.role \/ users[u].permissions # profile.permissions
    /\ users' = [users EXCEPT ![u] = [@ EXCEPT !.role = profile.role,
                                               !.permissions = profile.permissions]]
    /\ UNCHANGED <<accessTokens, areq, now, refreshVars, stateVars, permVars, tokenVars, orgVars>>

\* the stored user is moved to another organization
MoveUser(u, o) ==
    /\ u \in DOMAIN users
    /\ users[u].organization_id # o
    /\ users' = [users EXCEPT ![u] = [@ EXCEPT !.organization_id = o]]
    /\ UNCHANGED <<accessTokens, areq, now, refreshVars, stateVars, permVars, tokenVars, orgVars>>

\* RequireAuth up to the database call: the header is read, split and checked,
\* and the token is verified
RequireAuth(r, path, h) ==
    IF h = <<>>
    THEN Respond(r, path, h, 401, "Authorization header required")
    ELSE IF ~BearerScheme(Split(h))
    THEN Respond(r, path, h, 401, "Invalid authorization header")
    ELSE IF ~ValidateToken(AsToken(Split(h)[2]), now)
    THEN Respond(r, path, h, 401, "Invalid token")
    ELSE areq' = [areq EXCEPT ![r] =
                    [IdleAuth EXCEPT !.pc = "getuser", !.path = path, !.header = h,
                                     !.user_id = TokenClaims(AsToken(Split(h)[2])).user_id]]

\* Server.ServeHTTP up to the database call of RequireAuth: the public
\* endpoints, the check of the organization ID's format, then RequireAuth
ServeHTTP(r, path, h) ==
    /\ areq[r].pc = "idle"
    /\ \A q \in AuthIDs : q < r => areq[q].pc # "idle"
    /\ IF PublicEndpoint(path)
       THEN areq' = [areq EXCEPT ![r] =
                       [IdleAuth EXCEPT !.pc = "done", !.path = path, !.header = h,
                                        !.status = 200, !.handler = PublicHandler(path)]]
       ELSE IF ~BasicValidation(path)
       THEN Respond(r, path, h, 400, "Invalid organization ID format")
       ELSE RequireAuth(r, path, h)
    /\ UNCHANGED <<users, accessTokens, now, refreshVars, stateVars, permVars, tokenVars, orgVars>>

\* protectedHandler with the user of the request context: the route's
\* RequirePermissions, then RequireSameOrg where the route has it, then the
\* endpoint handler (CSRFHandler calls it for every method). The status 200
\* stands for the response of the endpoint handler.
ProtectedHandler(req, user) ==
    LET route == Route(req.path)
        passed == [req EXCEPT !.pc = "done", !.invoked = TRUE, !.ctx = user]
    IN  IF route.handler = "NotFound"
        THEN [passed EXCEPT !.status = 404, !.body = "404 page not found"]
        ELSE IF ~HasAllPermissions(user, route.perms)
        THEN [passed EXCEPT !.status = 403, !.body = "Forbidden"]
        ELSE IF route.sameOrg /\ ~RequireSameOrg(req.path, user)
        THEN [passed EXCEPT !.status = 403, !.body = "Forbidden"]
        ELSE [passed EXCEPT !.status = 200, !.handler = route.handler]

\* (variant) the user of the request context takes its role and organization
\* from the claims of the token
ContextUserFromClaims(req) ==
    LET claims == TokenClaims(AsToken(Split(req.header)[2]))
    IN  [users[req.user_id] EXCEPT !.role = claims.role,
                                   !.organization_id = claims.organization_id]

\* the user RequireAuth puts in the request context: the row GetUser returned
\* for claims.UserID
ContextUser(req) == users[req.user_id]

\* am.db.GetUser(claims.UserID) returned: on an error 401, otherwise the user is
\* put in the request context and next.ServeHTTP is called
RequireAuthGetUser(r) ==
    /\ areq[r].pc = "getuser"
    /\ IF areq[r].user_id \in DOMAIN users
       THEN areq' = [areq EXCEPT ![r] =
                       ProtectedHandler([@ EXCEPT !.ctxUser = areq[r].user_id],
                                        ContextUser(areq[r]))]
       ELSE areq' = [areq EXCEPT ![r] =
                       [@ EXCEPT !.pc = "done", !.status = 401, !.body = "User not found"]]
    /\ UNCHANGED <<users, accessTokens, now, refreshVars, stateVars, permVars, tokenVars, orgVars>>

\* GetUser failed for another reason than a missing row (store failure)
RequireAuthGetUserFails(r) ==
    /\ areq[r].pc = "getuser"
    /\ areq' = [areq EXCEPT ![r] =
                  [@ EXCEPT !.pc = "done", !.status = 401, !.body = "User not found"]]
    /\ UNCHANGED <<users, accessTokens, now, refreshVars, stateVars, permVars, tokenVars, orgVars>>

\* The instants requests are observed at: the start, and the expiry instant of
\* an access token issued at the start.
AuthInstants == {0, AccessTokenTTL}

AdvanceAuthClock(t) ==
    /\ t > now
    /\ now' = t
    /\ UNCHANGED <<refreshVars, stateVars, authVars, permVars, tokenVars, orgVars>>

\* ------------------------------------------------------ token manager calls
\* tcall holds the one direct call of the token manager a behaviour makes.
\* issuedLog notes for each issued token when and by which key pair it was
\* issued; atRestart notes the rows of refresh_tokens and the requests received
\* when the process last restarted.

IdleTokenCall == [op |-> "none", token |-> Malformed, user_id |-> NoUser, user |-> NoCtx,
                  at |-> 0, gen |-> 0, ok |-> FALSE, claims |-> NoClaims]

\* tm.GenerateToken(user), then tm.ValidateToken on the returned token
GenerateThenValidate(u) ==
    /\ tcall.op = "none"
    /\ u \in DOMAIN users
    /\ Cardinality(accessTokens) < MaxTokens
    /\ LET tok == GenerateToken(u, users[u], now)
       IN  /\ accessTokens' = accessTokens \cup {tok}
           /\ issuedLog' = issuedLog \cup {[token |-> tok, at |-> now, gen |-> keypair]}
           /\ tcall' = [op |-> "roundtrip", token |-> tok, user_id |-> u, user |-> users[u],
                        at |-> now, gen |-> keypair, ok |-> ValidateToken(tok, now),
                        claims |-> IF ValidateToken(tok, now) THEN TokenClaims(tok)
                                                              ELSE NoClaims]
    /\ UNCHANGED <<users, areq, now, refreshVars, stateVars, permVars, keypair, atRestart, orgVars>>

\* tm.ValidateToken(tokenString)
ValidateTokenCall(tok) ==
    /\ tcall.op = "none"
    /\ tcall' = [op |-> "validate", token |-> tok, user_id |-> NoUser, user |-> NoCtx,
                 at |-> now, gen |-> keypair, ok |-> ValidateToken(tok, now),
                 claims |-> IF ValidateToken(tok, now) THEN TokenClaims(tok) ELSE NoClaims]
    /\ UNCHANGED <<now, refreshVars, stateVars, authVars, permVars,
                   keypair, issuedLog, atRestart, orgVars>>

\* CreateInsert together with the response of the handler: on success the
\* TokenResponse hands the client the access token the handler generated with
\* GenerateToken(user) before it called CreateRefreshToken (no clock step lies
\* between the two where this action is used)
CreateInsertRespond(r) ==
    /\ rreq[r].pc = "c_insert"
    /\ rreq[r].user \in DOMAIN users
    /\ IF InsertAllowed(refresh_tokens, NewRow(r))
       THEN /\ refresh_tokens' = refresh_tokens \cup {NewRow(r)}
            /\ Finish(r, 200)
            /\ accessTokens' = accessTokens \cup
                  {GenerateToken(rreq[r].user, users[rreq[r].user], now)}
            /\ issuedLog' = issuedLog \cup
                  {[token |-> GenerateToken(rreq[r].user, users[rreq[r].user], now),
                    at |-> now, gen |-> keypair]}
       ELSE /\ refresh_tokens' = refresh_tokens
            /\ Fail(r, ErrStore)
            /\ UNCHANGED <<accessTokens, issuedLog>>
    /\ UNCHANGED <<clockVars, faults, stateVars, users, areq, permVars,
                   keypair, tcall, atRestart, orgVars>>

\* (variant) the refresh sessions are kept in the process
VolatileRows(rows) == {}

\* what a restart leaves of the refresh_tokens table: the database is not
\* touched
DurableRows(rows) == rows

\* The process stops and starts again: NewServer makes a new TokenManager (a
\* new key pair) and a new, empty StateStore with a new ticker; the requests in
\* flight get no response; the database keeps its rows.
Restart ==
    /\ keypair < 1 + MaxRestarts
    /\ keypair' = keypair + 1
    /\ atRestart' = [rows |-> refresh_tokens, reqs |-> {r \in ReqIDs : Started(r)}]
    /\ refresh_tokens' = DurableRows(refresh_tokens)
    /\ rreq' = [r \in ReqIDs |->
                  IF r \in InFlight
                  THEN [rreq[r] EXCEPT !.pc = "done", !.status = 0, !.swept = 0]
                  ELSE rreq[r]]
    /\ areq' = [r \in AuthIDs |->
                  IF areq[r].pc = "getuser" THEN [areq[r] EXCEPT !.pc = "aborted"]
                  ELSE areq[r]]
    /\ vcall' = [c \in CallIDs |->
                   IF vcall[c].pc \notin {"idle", "done"} THEN [vcall[c] EXCEPT !.pc = "aborted"]
                   ELSE vcall[c]]
    /\ states' = EmptyMap
    /\ logical' = EmptyMap
    /\ cleanup' = IdleCleanup
    /\ nextTick' = now + CleanupInterval
    /\ UNCHANGED <<now, faults, stored, users, accessTokens, permVars, issuedLog, tcall, orgVars>>

\* The instants the token manager is called at: the start, one second before,
\* at, and one second after the expiry of a token issued at the start.
TokenInstants == {0, AccessTokenTTL - 1, AccessTokenTTL, AccessTokenTTL + 1}

AdvanceTokenClock(t) ==
    /\ t > now
    /\ now' = t
    /\ UNCHANGED <<refreshVars, stateVars, authVars, permVars, tokenVars, orgVars>>

\* ------------------------------------------------------ specifications

\* ------------------------------------------------------ organizations and users
\* The tables organizations and users (here accounts: id, email,
\* organization_id, role) hold the committed rows. A database call runs in a
\* transaction of the default isolation level (READ COMMITTED): every statement
\* reads the rows committed when it runs and the rows its own transaction wrote,
\* and its writes are published by Commit or discarded by Rollback.

TxIDs == 1..MaxTx

ErrEmailTaken == "email already taken"
ErrMaxSubAccounts == "maximum sub-accounts reached"
\* sql.ErrNoRows of a SELECT that found no row
ErrNoRows == "sql: no rows in result set"
\* the driver's error for an INSERT that violates users.email UNIQUE
ErrUniqueViolation == "duplicate key value violates unique constraint"

\* uuid.UUID{}: the value of Organization.OwnerID when it is not set
ZeroUUID == <<"uuid", 0, 0>>

\* uuid.New() in the call that runs as transaction t
NewOrgID(t) == <<"org", t, 0>>
NewUserID(t) == <<"user", t, 0>>

\* The organization that exists at the start, created by an earlier
\* CreateOrganization and filled by AddUserToOrganization up to one below its
\* limit.
FirstOrg == <<"org", 0, 0>>
FirstOwner == <<"user", 0, 0>>
UnknownOrg == <<"org", 0, 1>>

InitOrganizations ==
    {[id |-> FirstOrg, owner_id |-> FirstOwner, max_sub_accounts |-> MaxSubAccounts]}

InitAccounts ==
    {[id |-> FirstOwner, email |-> <<"owner", 0>>, organization_id |-> FirstOrg,
      role |-> "owner"]}
    \cup {[id |-> <<"user", 0, i>>, email |-> <<"sub", i>>, organization_id |-> FirstOrg,
           role |-> "sub_account"] : i \in 1..(MaxSubAccounts - 1)}

\* the emails and organizations the calls are made with
CallEmails == {<<"owner", 0>>, <<"new", 1>>, <<"new", 2>>}
CallOrgs == {FirstOrg, UnknownOrg}

\* A transaction record: kind, the call; pc, the statement it is about to run;
\* email and org, the call's arguments; count, the call's local variable; err
\* and status, what the call returned and what its handler answered.
IdleTx == [kind |-> "none", pc |-> "idle", email |-> <<"none", 0>>, org |-> ZeroUUID,
           count |-> 0, err |-> NoError, status |-> 0]

TxInFlight(t) == txs[t].pc \notin {"idle", "done"}

\* the rows transaction t has written and not yet published
PendingOrgs(t) ==
    IF /\ txs[t].kind \in {"CreateOrganization", "CreateOrganizationWithOwner"}
       /\ txs[t].pc \in {"insert_user", "update_owner", "commit"}
    THEN {[id |-> NewOrgID(t),
           owner_id |-> IF txs[t].kind = "CreateOrganizationWithOwner" \/ txs[t].pc = "commit"
                        THEN NewUserID(t) ELSE ZeroUUID,
           max_sub_accounts |-> MaxSubAccounts]}
    ELSE {}

PendingUsers(t) ==
    IF txs[t].pc \in {"update_owner", "commit"}
    THEN {[id |-> NewUserID(t), email |-> txs[t].email,
           organization_id |-> IF txs[t].kind = "AddUserToOrganization"
                               THEN txs[t].org ELSE NewOrgID(t),
           role |-> IF txs[t].kind = "AddUserToOrganization"
                    THEN "sub_account" ELSE "owner"]}
    ELSE {}

\* SELECT COUNT(*) FROM users WHERE email = $1, run by transaction t
CountEmail(t, email) ==
    Cardinality({a \in accounts \cup PendingUsers(t) : a.email = email})

\* SELECT COUNT(*) FROM users WHERE organization_id = $1 AND role = 'sub_account'
CountSubAccounts(t, orgID) ==
    Cardinality({a \in accounts \cup PendingUsers(t) :
                    a.organization_id = orgID /\ a.role = "sub_account"})

\* (variant) the limit is reached only when the count is above it
LimitExceeded(count, maxSubAccounts) == count > maxSubAccounts

\* count >= maxSubAccounts
LimitReached(count, maxSubAccounts) == count >= maxSubAccounts

\* the answer of handleCreateOrganization and handleAddUser to the error of the
\* database call; handleGoogleCallback answers every error of
\* CreateOrganizationWithOwner with 500
TxStatus(kind, err) ==
    IF err = NoError THEN 200
    ELSE IF kind = "CreateOrganizationWithOwner" THEN 500
    ELSE IF err = ErrEmailTaken THEN 409
    ELSE IF kind = "AddUserToOrganization" /\ err = ErrMaxSubAccounts THEN 403
    ELSE 500

\* (variant) statements outside a transaction: what was written stays
KeepWritten(rows, written) == rows \cup written

\* the deferred tx.Rollback() after an error: what was written is discarded
Rollback(rows, written) == rows

\* the call returns err; its deferred Rollback has run
TxReturn(t, err) ==
    /\ txs' = [txs EXCEPT ![t] = [@ EXCEPT !.pc = "done", !.err = err,
                                            !.status = TxStatus(txs[t].kind, err)]]
    /\ organizations' = Rollback(organizations, PendingOrgs(t))
    /\ accounts' = Rollback(accounts, PendingUsers(t))

TxStep(t, pc) ==
    /\ txs' = [txs EXCEPT ![t] = [@ EXCEPT !.pc = pc]]
    /\ UNCHANGED <<organizations, accounts>>

OrgUnchanged ==
    UNCHANGED <<callbacks, now, refreshVars, stateVars, authVars, permVars, tokenVars>>

TxCanStart(t) ==
    /\ txs[t].pc = "idle"
    /\ \A q \in TxIDs : q < t => txs[q].pc # "idle"

\* CreateOrganization(name, ownerEmail, ownerName): BeginTxx
CreateOrganization(t, email) ==
    /\ TxCanStart(t)
    /\ txs' = [txs EXCEPT ![t] = [IdleTx EXCEPT !.kind = "CreateOrganization",
                                                 !.pc = "count_email", !.email = email]]
    /\ UNCHANGED <<organizations, accounts>>
    /\ OrgUnchanged

\* AddUserToOrganization(orgID, email, name): BeginTxx
AddUserToOrganization(t, orgID, email) ==
    /\ TxCanStart(t)
    /\ txs' = [txs EXCEPT ![t] = [IdleTx EXCEPT !.kind = "AddUserToOrganization",
                                                 !.pc = "count_email", !.email = email,
                                                 !.org = orgID]]
    /\ UNCHANGED <<organizations, accounts>>
    /\ OrgUnchanged

\* CreateOrganizationWithOwner(org, owner) with the arguments handleGoogleCallback
\* passes (org.OwnerID = owner.ID, owner.OrganizationID = org.ID, role owner):
\* BeginTxx
CreateOrganizationWithOwner(t, email) ==
    /\ TxCanStart(t)
    /\ txs' = [txs EXCEPT ![t] = [IdleTx EXCEPT !.kind = "CreateOrganizationWithOwner",
                                                 !.pc = "insert_org", !.email = email]]
    /\ UNCHANGED <<organizations, accounts>>
    /\ OrgUnchanged

\* SELECT COUNT(*) FROM users WHERE email = $1; count > 0 returns ErrEmailTaken
TxCountEmail(t) ==
    /\ txs[t].pc = "count_email"
    /\ IF CountEmail(t, txs[t].email) > 0
       THEN TxReturn(t, ErrEmailTaken)
       ELSE TxStep(t, IF txs[t].kind = "CreateOrganization" THEN "insert_org"
                      ELSE "count_subs")
    /\ OrgUnchanged

\* SELECT COUNT(*) ... WHERE organization_id = $1 AND role = 'sub_account'
TxCountSubAccounts(t) ==
    /\ txs[t].pc = "count_subs"
    /\ txs' = [txs EXCEPT ![t] = [@ EXCEPT !.pc = "select_max",
                                            !.count = CountSubAccounts(t, txs[t].org)]]
    /\ UNCHANGED <<organizations, accounts>>
    /\ OrgUnchanged

\* SELECT max_sub_accounts FROM organizations WHERE id = $1 (no row is an
\* error); count >= maxSubAccounts returns ErrMaxSubAccounts
TxSelectMax(t) ==
    /\ txs[t].pc = "select_max"
    /\ LET found == {o \in organizations \cup PendingOrgs(t) : o.id = txs[t].org}
       IN  IF found = {} THEN TxReturn(t, ErrNoRows)
           ELSE IF \E o \in found : LimitReached(txs[t].count, o.max_sub_accounts)
           THEN TxReturn(t, ErrMaxSubAccounts)
           ELSE TxStep(t, "insert_user")
    /\ OrgUnchanged

\* INSERT INTO organizations: the ID is new, no constraint can fail
TxInsertOrg(t) ==
    /\ txs[t].pc = "insert_org"
    /\ TxStep(t, "insert_user")
    /\ OrgUnchanged

\* INSERT INTO users. users.email is UNIQUE: the statement waits while another
\* transaction holds an unpublished row with the same email, and fails when a
\* committed row has it. organization_id REFERENCES organizations(id).
TxInsertUser(t) ==
    /\ txs[t].pc = "insert_user"
    /\ \A q \in TxIDs \ {t} : \A a \in PendingUsers(q) : a.email # txs[t].email
    /\ LET orgID == IF txs[t].kind = "AddUserToOrganization" THEN txs[t].org
                    ELSE NewOrgID(t)
       IN  IF \E a \in accounts : a.email = txs[t].email
           THEN TxReturn(t, ErrUniqueViolation)
           ELSE IF \A o \in organizations \cup PendingOrgs(t) : o.id # orgID
           THEN TxReturn(t, ErrStore)
           ELSE TxStep(t, IF txs[t].kind = "CreateOrganization" THEN "update_owner"
                          ELSE "commit")
    /\ OrgUnchanged

\* UPDATE organizations SET owner_id = $1 WHERE id = $2
TxUpdateOwner(t) ==
    /\ txs[t].pc = "update_owner"
    /\ txs[t].kind = "CreateOrganization"
    /\ TxStep(t, "commit")
    /\ OrgUnchanged

\* tx.Commit(): the rows written are published and the call returns nil
TxCommit(t) ==
    /\ txs[t].pc = "commit"
    /\ organizations' = organizations \cup PendingOrgs(t)
    /\ accounts' = accounts \cup PendingUsers(t)
    /\ txs' = [txs EXCEPT ![t] = [@ EXCEPT !.pc = "done",
                                            !.status = TxStatus(txs[t].kind, NoError)]]
    /\ OrgUnchanged

\* the statement the transaction is about to run, or its Commit, fails with an
\* error of the driver
TxFails(t) ==
    /\ TxInFlight(t)
    /\ TxReturn(t, ErrStore)
    /\ OrgUnchanged

\* ------------------------------------------------------ handleGoogleCallback

\* A callback record: pc, the step handleGoogleCallback is about to run; status,
\* its answer; exchanged, whether oauth.Exchange was called; email, the email
\* GetUserInfo returned; user, the ID of the user found or created. Callback c
\* makes the ValidateAndDeleteState call vcall[c].
IdleCallback == [pc |-> "idle", status |-> 0, exchanged |-> FALSE,
                 email |-> <<"none", 0>>, user |-> ZeroUUID]

\* uuid.New() in callback c
CallbackOrgID(c) == <<"org", c, 1>>
CallbackUserID(c) == <<"user", c, 1>>

\* the emails Google reports
GoogleEmails == {<<"owner", 0>>, <<"new", 1>>}

CallbackUnchanged == UNCHANGED <<txs, now, faults, rreq, stateVars, users, areq, permVars, tokenVars>>

CallbackAnswer(c, st) ==
    callbacks' = [callbacks EXCEPT ![c] = [@ EXCEPT !.pc = "done", !.status = st]]

\* handleGoogleLogin: generateState draws 64 random bytes, a state that was
\* never drawn and never presented before; StoreState(state, 5 * time.Minute)
handleGoogleLogin(k) ==
    /\ stored[k] = 0
    /\ \A c \in CallIDs : vcall[c].key # k
    /\ StoreState(k)

\* a request that is not a GET (405) or has no state parameter (400)
CallbackBadRequest(c, method) ==
    /\ callbacks[c].pc = "idle" /\ vcall[c].pc = "idle"
    /\ CallbackAnswer(c, IF method # "GET" THEN 405 ELSE 400)
    /\ UNCHANGED <<organizations, accounts, accessTokens, refresh_tokens>>
    /\ CallbackUnchanged

\* (variant) the result of ValidateAndDeleteState is not looked at
StateIgnored(result) == TRUE

\* if !s.stateStore.ValidateAndDeleteState(state) { 400; return }
StateAccepted(result) == result

\* ValidateAndDeleteState has returned: false is answered 400; then a request
\* without a code parameter is answered 400
CallbackStateChecked(c, code) ==
    /\ callbacks[c].pc = "idle" /\ vcall[c].pc = "done"
    /\ IF ~StateAccepted(vcall[c].result) THEN CallbackAnswer(c, 400)
       ELSE IF code = "" THEN CallbackAnswer(c, 400)
       ELSE callbacks' = [callbacks EXCEPT ![c] = [@ EXCEPT !.pc = "exchange"]]
    /\ UNCHANGED <<organizations, accounts, accessTokens, refresh_tokens>>
    /\ CallbackUnchanged

\* s.oauth.Exchange(ctx, code): an error is answered 500
CallbackExchange(c, ok) ==
    /\ callbacks[c].pc = "exchange"
    /\ callbacks' = [callbacks EXCEPT ![c] =
                       [@ EXCEPT !.exchanged = TRUE,
                                 !.pc = IF ok THEN "userinfo" ELSE "done",
                                 !.status = IF ok THEN 0 ELSE 500]]
    /\ UNCHANGED <<organizations, accounts, accessTokens, refresh_tokens>>
    /\ CallbackUnchanged

\* s.oauth.GetUserInfo(ctx, token)
CallbackUserInfo(c, email) ==
    /\ callbacks[c].pc = "userinfo"
    /\ callbacks' = [callbacks EXCEPT ![c] = [@ EXCEPT !.pc = "lookup", !.email = email]]
    /\ UNCHANGED <<organizations, accounts, accessTokens, refresh_tokens>>
    /\ CallbackUnchanged

\* s.db.GetUserByEmail(ctx, googleUser.Email): nil when there is no row
CallbackLookup(c) ==
    /\ callbacks[c].pc = "lookup"
    /\ LET found == {a \in accounts : a.email = callbacks[c].email}
       IN  callbacks' = [callbacks EXCEPT ![c] =
              IF found = {} THEN [@ EXCEPT !.pc = "create"]
              ELSE [@ EXCEPT !.pc = "token", !.user = (CHOOSE a \in found : TRUE).id]]
    /\ UNCHANGED <<organizations, accounts, accessTokens, refresh_tokens>>
    /\ CallbackUnchanged

\* user == nil: CreateOrganizationWithOwner(org, user), run here as one step of
\* the database (its statements are the transaction steps above); an error is
\* answered 500
CallbackCreate(c) ==
    /\ callbacks[c].pc = "create"
    /\ IF \E a \in accounts : a.email = callbacks[c].email
       THEN /\ CallbackAnswer(c, 500)
            /\ UNCHANGED <<organizations, accounts>>
       ELSE /\ organizations' = organizations \cup
                  {[id |-> CallbackOrgID(c), owner_id |-> CallbackUserID(c),
                    max_sub_accounts |-> MaxSubAccounts]}
            /\ accounts' = accounts \cup
                  {[id |-> CallbackUserID(c), email |-> callbacks[c].email,
                    organization_id |-> CallbackOrgID(c), role |-> "owner"]}
            /\ callbacks' = [callbacks EXCEPT ![c] =
                               [@ EXCEPT !.pc = "token", !.user = CallbackUserID(c)]]
    /\ UNCHANGED <<accessTokens, refresh_tokens>>
    /\ CallbackUnchanged

\* s.tokenManager.GenerateToken(user)
CallbackToken(c) ==
    /\ callbacks[c].pc = "token"
    /\ \E a \in accounts :
          /\ a.id = callbacks[c].user
          /\ accessTokens' = accessTokens \cup {GenerateToken(a.id, a, now)}
    /\ callbacks' = [callbacks EXCEPT ![c] = [@ EXCEPT !.pc = "session"]]
    /\ UNCHANGED <<organizations, accounts, refresh_tokens>>
    /\ CallbackUnchanged

\* s.db.CreateRefreshToken(ctx, user.ID), run here as one step (its statements
\* are the steps of the refresh store above); the tokens are returned
CallbackSession(c) ==
    /\ callbacks[c].pc = "session"
    /\ refresh_tokens' =
          DeleteUserRows(CleanupExpiredTokens(refresh_tokens, now), callbacks[c].user)
          \cup {[id |-> <<"uuid", c>>, user_id |-> callbacks[c].user,
                 token_hash |-> HashToken(GenerateRefreshToken(c)),
                 expires_at |-> now + RefreshTokenTTL]}
    /\ CallbackAnswer(c, 200)
    /\ UNCHANGED <<organizations, accounts, accessTokens>>
    /\ CallbackUnchanged

\* GetUserInfo, GetUserByEmail, CreateOrganizationWithOwner, GenerateToken or
\* CreateRefreshToken returns an error: 500
CallbackFails(c) ==
    /\ callbacks[c].pc \in {"userinfo", "lookup", "create", "token", "session"}
    /\ CallbackAnswer(c, 500)
    /\ UNCHANGED <<organizations, accounts, accessTokens, refresh_tokens>>
    /\ CallbackUnchanged

Init ==
    /\ now = 0
    /\ refresh_tokens = {}
    /\ faults = 0
    /\ states = EmptyMap
    /\ logical = EmptyMap
    /\ stored = [k \in StateKeys |-> 0]
    /\ cleanup = IdleCleanup
    /\ nextTick = CleanupInterval
    /\ vcall = [c \in CallIDs |-> IdleCall]
    /\ users = InitUsers
    /\ accessTokens = {}
    /\ areq = [r \in AuthIDs |-> IdleAuth]
    /\ pcall = IdlePerm
    /\ keypair = 1
    /\ issuedLog = {}
    /\ tcall = IdleTokenCall
    /\ atRestart = [rows |-> {}, reqs |-> {}]
    /\ rreq = [r \in ReqIDs |-> IdleReq]
    /\ organizations = InitOrganizations
    /\ accounts = InitAccounts
    /\ txs = [t \in TxIDs |-> IdleTx]
    /\ callbacks = [c \in CallIDs |-> IdleCallback]

Next ==
    \/ \E r \in ReqIDs, u \in UserIDs : StartLogin(r, u)
    \/ \E r \in ReqIDs, t \in {NoToken} \cup ReqIDs : StartRefresh(r, t)
    \/ \E r \in ReqIDs, u \in UserIDs : InvalidateUserRefreshTokens(r, u)
    \/ \E r \in ReqIDs : ValidateSelect(r)
    \/ \E r \in ReqIDs : CreateCleanup(r)
    \/ \E r \in ReqIDs : CreateDelete(r)
    \/ \E r \in ReqIDs : CreateInsert(r)
    \/ \E t \in Instants : AdvanceClock(t)

StoreFailure ==
    \/ \E r \in ReqIDs, u \in UserIDs : StartLoginCleanupFails(r, u)
    \/ \E r \in ReqIDs, t \in {NoToken} \cup ReqIDs : StartRefreshCleanupFails(r, t)
    \/ \E r \in ReqIDs : CreateCleanupFails(r)
    \/ \E r \in ReqIDs : SelectFails(r)
    \/ \E r \in ReqIDs : GetUserFails(r)
    \/ \E r \in ReqIDs : DeleteFails(r)
    \/ \E r \in ReqIDs : InsertFails(r)

FaultNext == Next \/ StoreFailure

Spec == Init /\ [][Next]_vars

FaultSpec == Init /\ [][FaultNext]_vars

StateNext ==
    \/ \E k \in StateKeys : StoreState(k)
    \/ \E c \in CallIDs, k \in StateKeys : ValidateLoad(c, k)
    \/ \E c \in CallIDs : ValidateCheck(c)
    \/ CleanupTick
    \/ \E k \in StateKeys : CleanupVisit(k)
    \/ CleanupDelete
    \/ CleanupDone
    \/ \E t \in StateInstants : AdvanceStateClock(t)

StateSpec == Init /\ [][StateNext]_vars

\* the path of the requests that exercise the Authorization header
AuthPath == <<Sl, Word("organizations")>>

AuthNext ==
    \/ \E u \in UserIDs : IssueAccessToken(u)
    \/ \E u \in UserIDs : RemoveUser(u)
    \/ \E r \in AuthIDs : \E h \in HeadersWithout : ServeHTTP(r, AuthPath, h)
    \/ \E r \in AuthIDs : \E tok \in accessTokens :
          \E h \in HeadersWith(tok) : ServeHTTP(r, AuthPath, h)
    \/ \E r \in AuthIDs : \E tok \in ForgedTokens :
          ServeHTTP(r, AuthPath, <<Word("Bearer"), Sp, Tok(tok)>>)
    \/ \E r \in AuthIDs : RequireAuthGetUser(r)
    \/ \E r \in AuthIDs : RequireAuthGetUserFails(r)
    \/ \E t \in AuthInstants : AdvanceAuthClock(t)

AuthSpec == Init /\ [][AuthNext]_vars

\* one request per behaviour, to any path, with no header, with a forged
\* token or with an issued token, while users are updated and removed
ServeNext ==
    \/ \E u \in UserIDs : IssueAccessToken(u)
    \/ \E u \in UserIDs : RemoveUser(u)
    \/ \E u \in UserIDs : \E profile \in Profiles : UpdateUser(u, profile)
    \/ \E path \in Paths : ServeHTTP(1, path, <<>>)
    \/ \E path \in Paths : ServeHTTP(1, path, <<Word("Bearer"), Sp, Tok(Malformed)>>)
    \/ \E path \in Paths : \E tok \in accessTokens :
          ServeHTTP(1, path, <<Word("Bearer"), Sp, Tok(tok)>>)
    \/ RequireAuthGetUser(1)
    \/ RequireAuthGetUserFails(1)

ServeSpec == Init /\ [][ServeNext]_vars

\* one user whose row is updated, moved and removed between the issue of its
\* tokens and the requests that carry them
StoredNext ==
    \/ IssueAccessToken("u1")
    \/ RemoveUser("u1")
    \/ \E profile \in Profiles : UpdateUser("u1", profile)
    \/ \E o \in OrgIDs : MoveUser("u1", o)
    \/ \E path \in Paths : \E tok \in accessTokens :
          ServeHTTP(1, path, <<Word("Bearer"), Sp, Tok(tok)>>)
    \/ RequireAuthGetUser(1)

StoredSpec == Init /\ [][StoredNext]_vars

\* the token manager alone: tokens are issued and verified while the clock
\* advances
TokenNext ==
    \/ \E u \in UserIDs : IssueAccessToken(u)
    \/ \E u \in UserIDs : GenerateThenValidate(u)
    \/ \E tok \in accessTokens \cup ForgedTokens : ValidateTokenCall(tok)
    \/ \E t \in TokenInstants : AdvanceTokenClock(t)

TokenSpec == Init /\ [][TokenNext]_vars

RestartReqs == 1..MaxRestartReq

\* logins, refreshes and revocations next to access tokens, across restarts
\* of the process
RestartNext ==
    \/ \E r \in RestartReqs : \E u \in UserIDs : StartLogin(r, u)
    \/ \E r \in RestartReqs : \E t \in Presentable : StartRefresh(r, t)
    \/ \E r \in RestartReqs : \E u \in UserIDs : InvalidateUserRefreshTokens(r, u)
    \/ \E r \in RestartReqs : ValidateSelect(r)
    \/ \E r \in RestartReqs : CreateCleanup(r)
    \/ \E r \in RestartReqs : CreateDelete(r)
    \/ \E r \in RestartReqs : CreateInsertRespond(r)
    \/ \E tok \in accessTokens \cup ForgedTokens : ValidateTokenCall(tok)
    \/ Restart

RestartSpec == Init /\ [][RestartNext]_vars

OrgNext ==
    \/ \E t \in TxIDs, email \in CallEmails : CreateOrganization(t, email)
    \/ \E t \in TxIDs, orgID \in CallOrgs, email \in CallEmails :
          AddUserToOrganization(t, orgID, email)
    \/ \E t \in TxIDs, email \in CallEmails : CreateOrganizationWithOwner(t, email)
    \/ \E t \in TxIDs :
          \/ TxCountEmail(t)
          \/ TxCountSubAccounts(t)
          \/ TxSelectMax(t)
          \/ TxInsertOrg(t)
          \/ TxInsertUser(t)
          \/ TxUpdateOwner(t)
          \/ TxCommit(t)
          \/ TxFails(t)

OrgSpec == Init /\ [][OrgNext]_vars

\* The state store with a clock that reaches the second tick of the cleanup
\* ticker, and a cleanup goroutine that is scheduled: the ticker fires when its
\* instant has come, and a Range that has started visits its keys, runs its
\* deletes and ends. One ValidateAndDeleteState call competes with the sweep.
LiveInstants == StateInstants \cup {2 * CleanupInterval}

LiveStateNext ==
    \/ \E k \in StateKeys : StoreState(k)
    \/ \E k \in StateKeys : ValidateLoad(1, k)
    \/ ValidateCheck(1)
    \/ CleanupTick
    \/ \E k \in StateKeys : CleanupVisit(k)
    \/ CleanupDelete
    \/ CleanupDone
    \/ \E t \in LiveInstants : AdvanceStateClock(t)

LiveStateSpec ==
    /\ Init /\ [][LiveStateNext]_vars
    /\ WF_vars(CleanupTick)
    /\ WF_vars(\E k \in StateKeys : CleanupVisit(k))
    /\ WF_vars(CleanupDelete)
    /\ WF_vars(CleanupDone)

CallbackNext ==
    \/ \E k \in StateKeys : handleGoogleLogin(k)
    \/ \E c \in CallIDs, k \in StateKeys : ValidateLoad(c, k)
    \/ \E c \in CallIDs : ValidateCheck(c)
    \/ \E c \in CallIDs, method \in {"GET", "POST"} : CallbackBadRequest(c, method)
    \/ \E c \in CallIDs, code \in {"", "code"} : CallbackStateChecked(c, code)
    \/ \E c \in CallIDs, ok \in BOOLEAN : CallbackExchange(c, ok)
    \/ \E c \in CallIDs, email \in GoogleEmails : CallbackUserInfo(c, email)
    \/ \E c \in CallIDs :
          \/ CallbackLookup(c)
          \/ CallbackCreate(c)
          \/ CallbackToken(c)
          \/ CallbackSession(c)
          \/ CallbackFails(c)
    \/ \E t \in StateInstants : AdvanceStateClock(t)

CallbackSpec == Init /\ [][CallbackNext]_vars

PermNext ==
    \/ \E u \in PermUsers : \E perm \in AllPermissions : CallHasPermission(u, perm)
    \/ \E u \in PermUsers : \E perms \in PermLists : CallHasAnyPermission(u, perms)
    \/ \E u \in PermUsers : \E perms \in PermLists : CallHasAllPermissions(u, perms)

PermSpec == Init /\ [][PermNext]_vars

\* ------------------------------------------------------ properties
\* of the refresh session store

Creating(r) == Done(r) /\ rreq[r].kind \in {"login", "refresh"}
Issued(r) == Creating(r) /\ rreq[r].status = 200
Refreshed(r) == Done(r) /\ rreq[r].kind = "refresh"

\* q finished before r started
Before(q, r) == q \in rreq[r].after

\* no other request overlapped r
Isolated(r) ==
    \A q \in ReqIDs \ {r} : Started(q) => (Before(q, r) \/ Before(r, q))

\* r is the first request after c, and ran alone
NextAfter(c, r) ==
    /\ rreq[r].after = rreq[c].after \cup {c}
    /\ Isolated(r)

\* A refresh request that presents the secret c issued, as the first request
\* after c and alone, succeeds unless the session had expired.
FreshSecretAccepted ==
    \A c \in ReqIDs : Issued(c) =>
        \A r \in ReqIDs :
            (Refreshed(r) /\ rreq[r].arg = rreq[c].token /\ NextAfter(c, r))
            => \/ rreq[r].status = 200
               \/ rreq[r].status = 401 /\ now >= rreq[c].expires

\* C1: in every reachable state the refresh_tokens table holds at most one row
\* per user ID.
C1_OneRowPerUser ==
    \A a, b \in refresh_tokens : a.user_id = b.user_id => a = b

\* C1 witness: a user's session has been replaced by a later one and a single
\* row of that user is in the table.
C1_Witness ==
    \E c1, c2 \in ReqIDs :
        /\ Issued(c1) /\ Issued(c2) /\ Before(c1, c2)
        /\ rreq[c1].user = rreq[c2].user
        /\ Cardinality(UserRows(refresh_tokens, rreq[c2].user)) = 1

\* C2: when CreateRefreshToken(P) returned S1 and a later CreateRefreshToken(P)
\* returned S2, then S2 # S1, every later refresh request presenting S1 is
\* answered 401, and a refresh request presenting S2 succeeds.
C2_Rotation ==
    /\ \A c2 \in ReqIDs : Issued(c2) =>
          \A c1 \in rreq[c2].after :
              (Issued(c1) /\ rreq[c1].user = rreq[c2].user)
              => /\ rreq[c2].token # rreq[c1].token
                 /\ \A r \in ReqIDs :
                       (Refreshed(r) /\ Before(c2, r) /\ rreq[r].arg = rreq[c1].token)
                       => rreq[r].status = 401
    /\ FreshSecretAccepted

\* C2 witness: S1 and then S2 were issued to one user, and a refresh request
\* presenting S1 afterwards got 401.
C2_Witness ==
    \E c1, c2, r \in ReqIDs :
        /\ Issued(c1) /\ Issued(c2) /\ Before(c1, c2) /\ rreq[c1].user = rreq[c2].user
        /\ Refreshed(r) /\ Before(c2, r) /\ rreq[r].arg = rreq[c1].token
        /\ rreq[r].status = 401

\* C3: a refresh secret is single-use: of two refresh requests made in sequence
\* with the same secret, the first succeeds and returns a new secret and the
\* second is answered 401.
C3_SingleUse ==
    \A r2 \in ReqIDs : Refreshed(r2) =>
        \A r1 \in rreq[r2].after :
            (Refreshed(r1) /\ rreq[r1].arg = rreq[r2].arg) =>
                /\ rreq[r1].status = 200
                   => /\ rreq[r1].token \notin {NoToken, rreq[r1].arg}
                      /\ rreq[r2].status = 401
                /\ \A c \in rreq[r1].after :
                      (Issued(c) /\ rreq[r1].arg = rreq[c].token /\ NextAfter(c, r1)
                         /\ NextAfter(r1, r2) /\ now < rreq[c].expires)
                      => rreq[r1].status = 200 /\ rreq[r2].status = 401

\* C3 witness: the same secret was presented twice in sequence; the first
\* request got 200 and the second 401.
C3_Witness ==
    \E c, r1, r2 \in ReqIDs :
        /\ Issued(c) /\ Refreshed(r1) /\ Refreshed(r2)
        /\ NextAfter(c, r1) /\ NextAfter(r1, r2)
        /\ rreq[r1].arg = rreq[c].token /\ rreq[r2].arg = rreq[c].token
        /\ rreq[r1].status = 200 /\ rreq[r2].status = 401

\* two CreateRefreshToken calls for one user that overlapped, with nothing
\* else started
ConcurrentLogins(a, b) ==
    /\ a # b
    /\ Creating(a) /\ Creating(b)
    /\ rreq[a].kind = "login" /\ rreq[b].kind = "login"
    /\ rreq[a].user = rreq[b].user
    /\ ~Before(a, b) /\ ~Before(b, a)
    /\ \A q \in ReqIDs \ {a, b} : ~Started(q)

\* C4: when two CreateRefreshToken calls for the same user run concurrently,
\* both return success with a secret, exactly one row of that user survives and
\* only the surviving row's secret is accepted by ValidateRefreshToken.
C4_ConcurrentCreateBothSucceed ==
    \A a, b \in ReqIDs :
        ConcurrentLogins(a, b)
        => /\ rreq[a].status = 200 /\ rreq[b].status = 200
           /\ Cardinality(UserRows(refresh_tokens, rreq[a].user)) = 1
           /\ \A c \in {a, b} :
                 SelectByHash(refresh_tokens, HashToken(rreq[c].token), now) # {}
                 => HashToken(rreq[c].token)
                      \in {row.token_hash : row \in UserRows(refresh_tokens, rreq[a].user)}

\* C5: CreateRefreshToken replaces a session atomically: whenever it returns an
\* error, the user's prior session row is still present (and so still
\* validates). Stated for a call that ran alone and was the last to start.
C5_ErrorKeepsPriorSession ==
    \A r \in ReqIDs :
        (Creating(r) /\ rreq[r].status = 500 /\ Isolated(r)
           /\ \A q \in ReqIDs \ {r} : Started(q) => Before(q, r))
        => \A row \in rreq[r].prior :
              SelectByHash(refresh_tokens, row.token_hash, now)
                = SelectByHash({row}, row.token_hash, now)

\* ------------------------------------------------------ properties
\* of the OAuth state store

CallsOn(k) == {c \in CallIDs : vcall[c].key = k /\ vcall[c].pc = "done"}
TrueCallsOn(k) == {c \in CallsOn(k) : vcall[c].result}

\* C6: for a state token stored once and not yet expired, among any number of
\* sequential or concurrent ValidateAndDeleteState calls exactly one returns
\* true and every other returns false.
C6_ConsumedExactlyOnce ==
    \A k \in StateKeys : stored[k] = 1 =>
        /\ Cardinality(TrueCallsOn(k)) <= 1
        /\ \A f \in CallsOn(k) :
              (vcall[f].found /\ now <= vcall[f].exp) => TrueCallsOn(k) = {f}
        /\ k \in DOMAIN states => TrueCallsOn(k) = {}
        /\ (k \in DOMAIN logical /\ k \notin DOMAIN states) => now > logical[k]

\* C6 witness: two calls on a token stored once have returned before its
\* expiry, one true and one false.
C6_Witness ==
    \E k \in StateKeys : \E f, g \in CallsOn(k) :
        /\ stored[k] = 1
        /\ vcall[f].found /\ now <= vcall[f].exp
        /\ vcall[f].result /\ ~vcall[g].result

\* C7: ValidateAndDeleteState at a time after the entry's expiry returns false
\* even when periodicCleanup has not removed the entry; at or before the expiry,
\* on an entry not yet consumed, it returns true.
C7_ExpiryRechecked ==
    \A c \in CallIDs : (vcall[c].pc = "done" /\ vcall[c].found) =>
        /\ vcall[c].read > vcall[c].exp => ~vcall[c].result
        /\ vcall[c].read <= vcall[c].exp => vcall[c].result

\* C7 witness: the cleanup has never run, one call found an expired entry and
\* returned false, another found an entry at its expiry instant and returned
\* true.
C7_Witness ==
    /\ nextTick = CleanupInterval /\ cleanup.pc = "idle"
    /\ \E c, d \in CallIDs :
          /\ vcall[c].pc = "done" /\ vcall[c].found
          /\ vcall[c].read > vcall[c].exp /\ ~vcall[c].result
          /\ vcall[d].pc = "done" /\ vcall[d].found
          /\ vcall[d].read = vcall[d].exp /\ vcall[d].result

\* C8: each stored key leaves the store exactly once, taken either by one
\* ValidateAndDeleteState call, which observes it, or by the sweep; and the
\* sweep never deletes an entry whose expiry has not passed.
C8_RemovedOnceAndSweepOnlyExpired ==
    [][\A k \in StateKeys :
         (k \in DOMAIN states /\ k \notin DOMAIN states')
         => \/ \E c \in CallIDs :
                 /\ vcall[c].pc = "idle" /\ vcall'[c].pc = "loaded"
                 /\ vcall'[c].key = k /\ vcall'[c].found
                 /\ cleanup' = cleanup
            \/ /\ cleanup.pending = k /\ cleanup'.pending = NoKey
               /\ vcall' = vcall
               /\ now > states[k]]_vars

\* C9: the result of every ValidateAndDeleteState call is the same whether or
\* not periodicCleanup runs: true exactly when the token was stored, has not
\* been consumed since, and the time is not after its expiry.
C9_CleanupInvisible ==
    \A c \in CallIDs : vcall[c].pc = "done" => vcall[c].result = vcall[c].expected

\* ------------------------------------------------------ RequireAuth properties

\* the header is exactly the word Bearer, one space, and the token tok
BearerHeader(h, tok) == h = <<Word("Bearer"), Sp, Tok(tok)>>

\* C10: RequireAuth invokes the downstream handler only when the Authorization
\* header has the form 'Bearer <token>', the token verifies (it is a token this
\* process signed and it has not expired when it is verified) and the principal
\* the token names is in the user store when it is looked up; in every other
\* case the response is 401 and the handler is never invoked, and a finished
\* request is never invoked afterwards.
C10_RequireAuthGate ==
    [][\A r \in AuthIDs :
          /\ (areq[r].pc = "idle" /\ areq'[r].pc = "getuser") =>
                /\ ~areq'[r].invoked
                /\ \E tok \in accessTokens :
                      /\ BearerHeader(areq'[r].header, tok)
                      /\ now < tok.exp
                      /\ areq'[r].user_id = tok.user_id
          /\ (areq[r].pc = "idle" /\ areq'[r].pc = "done") =>
                /\ ~areq'[r].invoked
                /\ areq'[r].status = 401
          /\ (areq[r].pc = "getuser" /\ areq'[r].pc = "done") =>
                IF areq'[r].invoked
                THEN /\ areq[r].user_id \in DOMAIN users
                     /\ areq'[r].ctxUser = areq[r].user_id
                     /\ \E tok \in accessTokens :
                           /\ BearerHeader(areq[r].header, tok)
                           /\ tok.user_id = areq[r].user_id
                ELSE areq'[r].status = 401
          /\ (areq[r].pc = "idle" /\ areq'[r].pc # "idle") =>
                areq'[r].pc \in {"getuser", "done"}
          /\ (areq[r].pc = "getuser" /\ areq'[r].pc # "getuser") =>
                areq'[r].pc = "done"
          /\ areq[r].pc = "done" => areq'[r] = areq[r]
      ]_vars

\* one request with an issued token was passed to the handler, and another one
\* with the token of a removed user was answered 401
C10_Witness ==
    \E r, q \in AuthIDs :
        /\ areq[r].pc = "done" /\ areq[r].invoked
        /\ \E tok \in accessTokens : BearerHeader(areq[r].header, tok)
        /\ areq[q].pc = "done" /\ ~areq[q].invoked /\ areq[q].status = 401
        /\ \E tok \in accessTokens :
              BearerHeader(areq[q].header, tok) /\ tok.user_id \notin DOMAIN users

\* ------------------------------------------------------ gate properties

\* the permissions a stored user holds: those of its role and its overrides
Granted(user) ==
    (IF user.role \in DOMAIN RolePermissions
     THEN {RolePermissions[user.role][i] : i \in 1..Len(RolePermissions[user.role])}
     ELSE {})
    \cup {k \in DOMAIN user.permissions : user.permissions[k]}

\* the path is /organizations/{id} or /organizations/{id}/... with the text of
\* an organization ID as {id}
CarriesOrgID(path) ==
    /\ Len(path) >= 4
    /\ path[1] = Sl /\ path[2] = Word("organizations") /\ path[3] = Sl
    /\ path[4][1].kind = "uuid"

PathOrgID(path) == path[4][1].id

\* request r is answered in this step by the chain behind RequireAuth, for the
\* user the store holds
Answered(r) ==
    /\ areq[r].pc = "getuser" /\ areq'[r].pc = "done"
    /\ areq'[r].invoked

\* C11: RequireSameOrg forwards a request whose path carries an organization ID
\* only when that ID is the organization ID of the authenticated principal, and
\* otherwise the response is 403: handleAddUser and handleGetOrganizationUsers
\* are never called for an organization other than the caller's own.
C11_SameOrgGate ==
    [][\A r \in AuthIDs :
          (Answered(r) /\ CarriesOrgID(areq[r].path)) =>
              LET user == users[areq[r].user_id]
              IN  /\ areq'[r].handler \in {"handleAddUser", "handleGetOrganizationUsers"} =>
                        PathOrgID(areq[r].path) = user.organization_id
                  /\ PathOrgID(areq[r].path) # user.organization_id =>
                        /\ areq'[r].status = 403
                        /\ areq'[r].handler = "none"
      ]_vars

\* a user that may invite users asked for the users of another organization and
\* was answered 403
C11_Witness ==
    \E r \in AuthIDs :
        /\ areq[r].pc = "done" /\ areq[r].invoked
        /\ areq[r].path = <<Sl, Word("organizations"), Sl, UUIDText("o2", "canonical"),
                            Sl, Word("users")>>
        /\ areq[r].ctx.organization_id = "o1"
        /\ PermInviteUser \in Granted(areq[r].ctx)
        /\ areq[r].status = 403 /\ areq[r].handler = "none"

\* the permission the route of a path requires: create:org for /organizations,
\* invite:user for /organizations/{id}/users, read:org for /organizations/{id}
Required(path) ==
    IF path = <<Sl, Word("organizations")>> THEN {PermCreateOrg}
    ELSE IF Len(path) >= 3 /\ SubSeq(path, 1, 3) = <<Sl, Word("organizations"), Sl>>
    THEN IF path[Len(path)] = Word("users") THEN {PermInviteUser} ELSE {PermReadOrg}
    ELSE {}

\* C12: a protected handler is called only when the authenticated principal has
\* every permission its route requires (create:org for /organizations,
\* invite:user for /organizations/{id}/users, read:org for /organizations/{id});
\* otherwise the permission gate answers 403 and the handler is not called.
C12_PermissionGate ==
    [][\A r \in AuthIDs :
          Answered(r) =>
              LET user == users[areq[r].user_id]
              IN  /\ areq'[r].handler = "handleCreateOrganization" =>
                        PermCreateOrg \in Granted(user)
                  /\ areq'[r].handler = "handleAddUser" => PermInviteUser \in Granted(user)
                  /\ areq'[r].handler = "handleGetOrganizationUsers" =>
                        PermReadOrg \in Granted(user)
                  /\ ~(Required(areq[r].path) \subseteq Granted(user)) =>
                        /\ areq'[r].status = 403
                        /\ areq'[r].handler = "none"
      ]_vars

\* a sub_account asked to create an organization and was answered 403, the
\* handler not called
C12_Witness ==
    \E r \in AuthIDs :
        /\ areq[r].pc = "done" /\ areq[r].invoked
        /\ areq[r].path = <<Sl, Word("organizations")>>
        /\ areq[r].ctx.role = "sub_account"
        /\ PermCreateOrg \notin Granted(areq[r].ctx)
        /\ areq[r].status = 403 /\ areq[r].handler = "none"

\* the request carries no header of the form Bearer <token> with a token this
\* process issued
NotAuthenticated(req) ==
    ~\E tok \in accessTokens : BearerHeader(req.header, tok)

\* C13: for a request to a protected path authentication is the first check
\* that can end it: when the Authorization header is absent or malformed or the
\* token does not verify, the response is 401 whatever the path holds.
C13_AuthenticationFirst ==
    \A r \in AuthIDs :
        (/\ areq[r].pc = "done"
         /\ ~PublicEndpoint(areq[r].path)
         /\ NotAuthenticated(areq[r])) => areq[r].status = 401

\* C14: the responses of RequireAuth to failed authentications do not tell which
\* check failed: any two of them have the same status and the same body.
C14_FailuresIndistinguishable ==
    \A r, q \in AuthIDs :
        (/\ areq[r].pc = "done" /\ ~areq[r].invoked /\ areq[r].status = 401
         /\ areq[q].pc = "done" /\ ~areq[q].invoked /\ areq[q].status = 401)
        => /\ areq[r].status = areq[q].status
           /\ areq[r].body = areq[q].body

\* ------------------------------------------------------ token properties

\* C15: for every user P, GenerateToken(P) followed at once by ValidateToken on
\* the returned token succeeds, and the claims it returns hold P's user ID,
\* organization ID and role.
C15_RoundTrip ==
    tcall.op = "roundtrip" =>
        /\ tcall.ok
        /\ tcall.claims.user_id = tcall.user_id
        /\ tcall.claims.organization_id = tcall.user.organization_id
        /\ tcall.claims.role = tcall.user.role

\* the round trip was made for a user of organization o2 whose role is not
\* owner, after the clock had advanced
C15_Witness ==
    /\ tcall.op = "roundtrip"
    /\ tcall.user.organization_id = "o2"
    /\ tcall.user.role = "sub_account"
    /\ tcall.at > 0
    /\ tcall.ok /\ tcall.claims.role = "sub_account"

\* C16: an access token GenerateToken issued at T0 expires at T0 + 15 minutes:
\* ValidateToken succeeds at every time from T0 to T0 + 14m59s and fails at
\* every time from T0 + 15m1s on; a token whose expires-at lies in the past
\* never verifies.
C16_Expiry ==
    tcall.op = "validate" =>
        /\ \A e \in issuedLog :
              e.token = tcall.token =>
                  /\ (e.at <= tcall.at /\ tcall.at <= e.at + AccessTokenTTL - 1) => tcall.ok
                  /\ tcall.at >= e.at + AccessTokenTTL + 1 => ~tcall.ok
        /\ (tcall.token.kind = "jwt" /\ tcall.token.exp < tcall.at) => ~tcall.ok

\* a token issued one second before the first token's expiry was verified one
\* second after that expiry and accepted
C16_Witness ==
    /\ tcall.op = "validate"
    /\ tcall.at = AccessTokenTTL + 1
    /\ tcall.ok
    /\ \E e \in issuedLog : e.token = tcall.token /\ e.at = AccessTokenTTL - 1
    /\ \E e \in issuedLog : e.at = 0

\* request q has run a DELETE of the rows of user u (as a revocation, or as the
\* DELETE of CreateRefreshToken)
DeletedRowsOf(q, u) ==
    /\ rreq[q].user = u
    /\ \/ rreq[q].kind = "revoke"
       \/ rreq[q].kind \in {"login", "refresh"} /\ rreq[q].pc \in {"c_insert", "done"}

\* C17: after a restart of the process (a new key pair, the same database)
\* every access token issued before the restart fails ValidateToken, and every
\* unexpired refresh session the table held at the restart is still accepted
\* by ValidateRefreshToken, as long as no request received since the restart
\* has replaced or revoked it.
C17_RestartAsymmetry ==
    [][/\ tcall'.op = "validate" =>
            \A e \in issuedLog' :
                (e.token = tcall'.token /\ e.gen < tcall'.gen) => ~tcall'.ok
       /\ \A r \in ReqIDs :
            (/\ keypair > 1 /\ keypair' = keypair
             /\ r \notin atRestart.reqs
             /\ rreq[r].pc = "v_select" /\ rreq'[r].pc # "v_select"
             /\ \E row \in atRestart.rows :
                   /\ row.token_hash = HashToken(rreq[r].arg)
                   /\ row.expires_at > now
                   /\ ~\E q \in ReqIDs \ (atRestart.reqs \cup {r}) :
                         DeletedRowsOf(q, row.user_id))
            => /\ rreq'[r].pc = "c_cleanup"
               /\ \E row \in atRestart.rows : rreq'[r].user = row.user_id
      ]_vars

\* after a restart the access token of a login made before it was refused, and
\* the refresh secret of that login was accepted and exchanged
C17_Witness ==
    /\ keypair > 1
    /\ tcall.op = "validate" /\ ~tcall.ok
    /\ \E e \in issuedLog : e.token = tcall.token /\ e.gen < tcall.gen
    /\ \E c \in atRestart.reqs : \E r \in ReqIDs \ atRestart.reqs :
          /\ rreq[c].kind = "login" /\ rreq[c].status = 200
          /\ tcall.token.user_id = rreq[c].user
          /\ rreq[r].kind = "refresh" /\ rreq[r].arg = rreq[c].token
          /\ rreq[r].pc = "done" /\ rreq[r].status = 200

\* C18: ValidateToken's result depends only on the token, the process's public
\* key and the clock, and the call reads and writes no refresh-session,
\* principal or OAuth-state data: the call changes none of them, and it succeeds
\* exactly for a token the running process issued that has not expired,
\* whatever the refresh sessions are, also after the user's session was rotated
\* or revoked.
C18_ValidateTokenFrame ==
    [][/\ tcall' # tcall =>
            UNCHANGED <<refresh_tokens, rreq, users, states, logical, accessTokens>>
       /\ tcall'.op = "validate" =>
            (tcall'.ok <=>
                \E e \in issuedLog' :
                    /\ e.token = tcall'.token
                    /\ e.gen = tcall'.gen
                    /\ e.at <= tcall'.at /\ tcall'.at < e.at + AccessTokenTTL)
      ]_vars

\* the access token of a login still verified after the user's refresh
\* sessions had been revoked and the table held no session of the user
C18_Witness ==
    /\ tcall.op = "validate" /\ tcall.ok
    /\ UserRows(refresh_tokens, tcall.token.user_id) = {}
    /\ \E c, v \in ReqIDs :
          /\ rreq[c].kind = "login" /\ rreq[c].status = 200
          /\ rreq[c].user = tcall.token.user_id
          /\ rreq[v].kind = "revoke" /\ rreq[v].user = rreq[c].user
          /\ c \in rreq[v].after

\* ------------------------------------------------------ permission properties

\* the permissions the static table gives a role: none for a role the table
\* does not hold
RoleGrants(role) ==
    IF role \in DOMAIN RolePermissions
    THEN {RolePermissions[role][i] : i \in 1..Len(RolePermissions[role])}
    ELSE {}

\* a user's override set: the permission strings its map holds as true
OverrideSet(u) == {k \in DOMAIN u.permissions : u.permissions[k]}

\* C19: HasPermission(u, p) is true exactly when p is in the static
\* RolePermissions table for u.Role or p is in u's override set; for a role the
\* table does not hold only the overrides count.
C19_HasPermission ==
    pcall.op = "HasPermission" =>
        /\ pcall.result = (\/ pcall.perms[1] \in RoleGrants(pcall.user.role)
                           \/ pcall.perms[1] \in OverrideSet(pcall.user))
        /\ pcall.user.role \notin {"owner", "admin", "sub_account"} =>
              pcall.result = (pcall.perms[1] \in OverrideSet(pcall.user))

\* a sub_account was granted create:org by an override only
C19_Witness ==
    /\ pcall.op = "HasPermission"
    /\ pcall.user.role = "sub_account"
    /\ pcall.perms = <<PermCreateOrg>>
    /\ PermCreateOrg \in OverrideSet(pcall.user)
    /\ pcall.result

\* C20: HasAnyPermission(u, ps) is the OR and HasAllPermissions(u, ps) the AND
\* of HasPermission(u, p) over the p of ps; for the empty list HasAnyPermission
\* is false and HasAllPermissions is true.
C20_AnyAll ==
    /\ pcall.op = "HasAnyPermission" =>
          /\ pcall.result = (\E i \in 1..Len(pcall.perms) : HasPermission(pcall.user, pcall.perms[i]))
          /\ pcall.perms = <<>> => ~pcall.result
    /\ pcall.op = "HasAllPermissions" =>
          /\ pcall.result = (\A i \in 1..Len(pcall.perms) : HasPermission(pcall.user, pcall.perms[i]))
          /\ pcall.perms = <<>> => pcall.result

\* HasAllPermissions was asked an empty list and answered true for a user
\* that holds nothing
C20_Witness ==
    /\ pcall.op = "HasAllPermissions"
    /\ pcall.perms = <<>>
    /\ pcall.user.role = "guest"
    /\ OverrideSet(pcall.user) = {}
    /\ pcall.result

\* C21: overrides are additive only. For every user and permission, no change
\* of the override map (adding an entry, removing an entry, storing an entry
\* with the value false) turns a permission the user's role grants from allowed
\* to denied, and adding an override never turns a HasPermission result from
\* true to false.
C21_OverridesAdditive ==
    pcall.op = "HasPermission" =>
        /\ pcall.perms[1] \in RoleGrants(pcall.user.role) =>
              /\ pcall.result
              /\ \A m \in Overrides :
                    HasPermission([pcall.user EXCEPT !.permissions = m], pcall.perms[1])
        /\ \A k \in OverrideKeys \ OverrideSet(pcall.user) :
              LET added == [x \in DOMAIN pcall.user.permissions \cup {k} |->
                               IF x = k THEN TRUE ELSE pcall.user.permissions[x]]
              IN  \A q \in AllPermissions :
                      HasPermission(pcall.user, q) =>
                          HasPermission([pcall.user EXCEPT !.permissions = added], q)

\* an owner whose map stores create:org with the value false was asked for
\* create:org and granted it
C21_Witness ==
    /\ pcall.op = "HasPermission"
    /\ pcall.user.role = "owner"
    /\ pcall.perms = <<PermCreateOrg>>
    /\ PermCreateOrg \in DOMAIN pcall.user.permissions
    /\ ~pcall.user.permissions[PermCreateOrg]
    /\ pcall.result

\* C22: through the middleware, a request that requires create:org (to
\* /organizations) is allowed for a principal whose role is owner, answered 403
\* for a sub_account with no overrides, and allowed for a sub_account whose
\* overrides hold create:org; a sub_account with no overrides still holds
\* read:org by its role.
C22_CreateOrgByRoleOrOverride ==
    [][\A r \in AuthIDs :
          Answered(r) =>
              LET user == users[areq[r].user_id]
              IN  /\ areq[r].path = <<Sl, Word("organizations")>> =>
                        /\ user.role = "owner" =>
                              areq'[r].handler = "handleCreateOrganization"
                        /\ (user.role = "sub_account" /\ OverrideSet(user) = {}) =>
                              /\ areq'[r].status = 403
                              /\ areq'[r].handler = "none"
                        /\ (user.role = "sub_account" /\ PermCreateOrg \in OverrideSet(user)) =>
                              areq'[r].handler = "handleCreateOrganization"
                  /\ (/\ user.role = "sub_account" /\ OverrideSet(user) = {}
                      /\ areq[r].path = <<Sl, Word("organizations"), Sl,
                                          UUIDText(user.organization_id, "canonical")>>) =>
                        areq'[r].handler = "handleGetOrganizationUsers"
      ]_vars

\* a sub_account whose overrides hold create:org asked to create an
\* organization and the handler was called
C22_Witness ==
    \E r \in AuthIDs :
        /\ areq[r].pc = "done" /\ areq[r].invoked
        /\ areq[r].path = <<Sl, Word("organizations")>>
        /\ areq[r].ctx.role = "sub_account"
        /\ PermCreateOrg \in OverrideSet(areq[r].ctx)
        /\ areq[r].handler = "handleCreateOrganization"

\* ------------------------------------------------------ errors and expiry
\* of the refresh session store

\* the CleanupExpiredTokens statement of request r fails in this step
SweepFails(r) ==
    /\ faults' = faults + 1
    /\ rreq[r].pc \in {"idle", "c_cleanup"}
    /\ rreq'[r] # rreq[r]

\* C23: when the sweep of expired sessions (CleanupExpiredTokens) fails,
\* CreateRefreshToken and ValidateRefreshToken still carry out their primary
\* operation (the new session is issued, the presented secret is looked up)
\* and do not return the sweep's error.
C23_SweepFailureDoesNotBlock ==
    [][\A r \in ReqIDs :
          SweepFails(r) =>
              /\ rreq'[r].pc \in {"c_delete", "v_select"}
              /\ rreq'[r].err # ErrStore
      ]_vars

\* the SELECT or the GetUser of ValidateRefreshToken fails in this step
LookupFails(r) ==
    /\ faults' = faults + 1
    /\ rreq[r].pc = "v_select"
    /\ rreq'[r].pc = "done"

\* C24: a failure of the durable store during the session lookup of
\* ValidateRefreshToken is reported to the caller as a store error, a 5xx at the
\* refresh endpoint, never as ErrRefreshTokenNotFound and 401.
C24_LookupFailureIsTransient ==
    [][\A r \in ReqIDs :
          LookupFails(r) =>
              /\ rreq'[r].err # ErrRefreshTokenNotFound
              /\ rreq'[r].status >= 500
      ]_vars

\* C25: ValidateRefreshToken fails with ErrRefreshTokenExpired, not
\* ErrRefreshTokenNotFound, when the hash of the presented secret matches a
\* session row whose expiry has passed, and with ErrRefreshTokenNotFound when no
\* row matches the hash.
C25_ExpiredIsNotNotFound ==
    [][\A r \in ReqIDs :
          (rreq[r].pc = "v_select" /\ rreq'[r].pc # "v_select") =>
              LET tokenHash == HashToken(rreq[r].arg)
              IN  /\ (\/ rreq[r].lapsed # {}
                      \/ LapsedRows(refresh_tokens, tokenHash, now) # {}) =>
                        rreq'[r].err = ErrRefreshTokenExpired
                  /\ (/\ rreq[r].lapsed = {}
                      /\ \A row \in refresh_tokens : row.token_hash # tokenHash) =>
                        rreq'[r].err = ErrRefreshTokenNotFound
      ]_vars

\* CreateRefreshToken or ValidateRefreshToken of request r returns in this step
\* without an error of the store: the INSERT succeeded, or the lookup found
\* the session or found none
Completes(r) ==
    \/ rreq[r].pc = "c_insert" /\ rreq'[r].pc = "done" /\ rreq'[r].err = NoError
    \/ rreq[r].pc = "v_select" /\ rreq'[r].pc = "c_cleanup"
    \/ rreq[r].pc = "v_select" /\ rreq'[r].pc = "done"
          /\ rreq'[r].err = ErrRefreshTokenNotFound

\* the CleanupExpiredTokens statement of request r succeeds in this step
Sweeps(r) ==
    \/ rreq[r].pc = "idle" /\ rreq'[r].pc \in {"c_delete", "v_select"}
    \/ rreq[r].pc = "c_cleanup" /\ rreq'[r].pc = "c_delete"

Untouched(c) ==
    \A q \in ReqIDs \ ({c} \cup rreq[c].after) : ~DeletedRowsOf(q, rreq[c].user)

\* C27: a refresh session created at time t expires at t + 7 days: absent any
\* rotation or revocation, ValidateRefreshToken accepts its secret at every time
\* before t + 7 days and rejects it at every time from t + 7 days on.
C27_SevenDays ==
    [][/\ \A c \in ReqIDs :
            /\ (rreq[c].pc = "c_delete" /\ rreq'[c].pc = "c_insert") =>
                  rreq'[c].expires = now + 7 * 24 * 3600
            /\ \A row \in refresh_tokens' \ refresh_tokens :
                  row.token_hash = HashToken(rreq[c].token) =>
                      row.expires_at = rreq[c].expires
       /\ \A c, r \in ReqIDs :
             (/\ Issued(c) /\ Untouched(c)
              /\ rreq[r].pc = "v_select" /\ rreq'[r].pc # "v_select"
              /\ rreq[r].arg = rreq[c].token) =>
                 /\ now < rreq[c].expires =>
                       /\ rreq'[r].pc = "c_cleanup"
                       /\ rreq'[r].user = rreq[c].user
                 /\ now >= rreq[c].expires =>
                       /\ rreq'[r].pc = "done"
                       /\ rreq'[r].err = ErrRefreshTokenNotFound
      ]_vars

\* a session created at time 0 was neither rotated nor revoked, and its secret
\* was presented and rejected at the instant of its expiry
C27_Witness ==
    \E c, r \in ReqIDs :
        /\ Issued(c) /\ Untouched(c)
        /\ rreq[c].expires = RefreshTokenTTL
        /\ Refreshed(r) /\ rreq[r].arg = rreq[c].token
        /\ now = rreq[c].expires
        /\ rreq[r].status = 401

\* request r is an InvalidateUserRefreshTokens call made in this step
Revokes(r) == rreq[r].pc = "idle" /\ rreq'[r].kind = "revoke"

\* C28: InvalidateUserRefreshTokens(P) is idempotent: it removes P's session
\* row if there is one and otherwise changes nothing, a second call returns no
\* error and leaves the same state, and after it the secret issued to P before
\* is rejected by ValidateRefreshToken.
C28_RevokeIdempotent ==
    [][/\ \A r \in ReqIDs :
            Revokes(r) =>
                LET u == rreq'[r].user
                IN  /\ refresh_tokens' = refresh_tokens \ UserRows(refresh_tokens, u)
                    /\ UserRows(refresh_tokens, u) = {} => refresh_tokens' = refresh_tokens
                    /\ rreq'[r].err = NoError /\ rreq'[r].status = 200
                    /\ \A v \in DoneSet :
                          (rreq[v].kind = "revoke" /\ rreq[v].user = u
                             /\ \A q \in ReqIDs \ {v} : Started(q) => Before(q, v)) =>
                              refresh_tokens' = refresh_tokens
       /\ \A c, v, r \in ReqIDs :
            (/\ Issued(c) /\ Done(v) /\ rreq[v].kind = "revoke"
             /\ rreq[v].user = rreq[c].user
             /\ Before(c, v) /\ Before(v, r)
             /\ rreq[r].pc = "v_select" /\ rreq'[r].pc # "v_select"
             /\ rreq[r].arg = rreq[c].token) =>
                /\ rreq'[r].pc = "done"
                /\ rreq'[r].err = ErrRefreshTokenNotFound
                /\ rreq'[r].status = 401
      ]_vars

\* a user's session was revoked twice in a row: both calls returned without
\* error and the table holds no row of the user
C28_Witness ==
    \E c, v1, v2 \in ReqIDs :
        /\ Issued(c)
        /\ rreq[v1].kind = "revoke" /\ rreq[v2].kind = "revoke"
        /\ rreq[v1].user = rreq[c].user /\ rreq[v2].user = rreq[c].user
        /\ Before(c, v1) /\ Before(v1, v2)
        /\ rreq[v1].status = 200 /\ rreq[v2].status = 200
        /\ rreq[v2].err = NoError
        /\ UserRows(refresh_tokens, rreq[c].user) = {}

\* the secret CreateRefreshToken returned for the row: the one generated by
\* the request that inserted it
SecretOf(row) == rreq[row.id[2]].token

\* C29: in every reachable state each refresh session row holds only the
\* one-way hash of its secret, never the secret itself; ValidateRefreshToken(S)
\* matches a row exactly when HashToken(S) is the row's stored hash, that is
\* when S is the row's secret; the secret is returned once by
\* CreateRefreshToken and cannot be read back from the store.
C29_OnlyHashStored ==
    [][/\ \A row \in refresh_tokens' :
            /\ DOMAIN row = {"id", "user_id", "token_hash", "expires_at"}
            /\ row.token_hash = <<"sha256", SecretOf(row)'>>
            /\ row.token_hash = HashToken(SecretOf(row)')
       /\ \A r \in ReqIDs :
            (rreq[r].pc = "v_select" /\ rreq'[r].pc # "v_select") =>
                /\ rreq'[r].pc = "c_cleanup" <=>
                      \E row \in refresh_tokens :
                          /\ row.token_hash = HashToken(rreq[r].arg)
                          /\ row.expires_at > now
                /\ rreq'[r].pc = "c_cleanup" <=>
                      \E row \in refresh_tokens :
                          /\ SecretOf(row) = rreq[r].arg
                          /\ row.expires_at > now
                          /\ rreq'[r].user = row.user_id
      ]_vars

\* a secret was presented and matched the row that holds its hash while the
\* table also held the row of another secret
C29_Witness ==
    \E r \in ReqIDs :
        /\ rreq[r].kind = "refresh" /\ rreq[r].pc = "c_cleanup"
        /\ \E row, other \in refresh_tokens :
              /\ row.token_hash = HashToken(rreq[r].arg)
              /\ SecretOf(row) = rreq[r].arg
              /\ other # row

\* ------------------------------------------------------ OAuth callback

\* C30: a request to /auth/callback/google that carries no Authorization header
\* is dispatched by Server.ServeHTTP to handleGoogleCallback, so that a state
\* stored by /auth/login/google can be consumed by the callback leg and the
\* login can complete.
C30_CallbackDispatched ==
    \A r \in AuthIDs :
        (/\ areq[r].pc = "done"
         /\ areq[r].path = <<Sl, Word("auth"), Sl, Word("callback"), Sl, Word("google")>>
         /\ areq[r].header = <<>>)
        => areq[r].handler = "handleGoogleCallback"

\* ------------------------------------------------------ concurrent refreshes

\* C33: when two refresh requests presenting the same valid secret run
\* concurrently, at most one of them completes successfully with new tokens:
\* the same secret is never honoured twice, whatever the interleaving of the
\* two requests' ValidateRefreshToken and CreateRefreshToken steps.
C33_SameSecretHonouredOnce ==
    \A a, b \in ReqIDs :
        (/\ a # b
         /\ Refreshed(a) /\ Refreshed(b)
         /\ rreq[a].arg = rreq[b].arg
         /\ ~Before(a, b) /\ ~Before(b, a))
        => ~(rreq[a].status = 200 /\ rreq[b].status = 200)

\* ------------------------------------------------------ frame of the
\* refresh session store

\* the rows that have not expired
LiveRows(rows, t) == {row \in rows : row.expires_at > t}

\* C39: CreateRefreshToken(P) and InvalidateUserRefreshTokens(P) leave the
\* unexpired session row of every other user Q unchanged, and
\* ValidateRefreshToken changes no unexpired row at all.
C39_OtherSessionsUntouched ==
    [][\A r \in ReqIDs :
          rreq'[r] # rreq[r] =>
              /\ (\/ rreq[r].pc = "idle" /\ rreq'[r].kind \in {"login", "revoke"}
                  \/ rreq[r].pc \in {"c_cleanup", "c_delete", "c_insert"}) =>
                    \A row \in LiveRows(refresh_tokens, now) :
                        row.user_id # rreq'[r].user => row \in refresh_tokens'
              /\ (\/ rreq[r].pc = "idle" /\ rreq'[r].kind = "refresh"
                  \/ rreq[r].pc = "v_select") =>
                    LiveRows(refresh_tokens', now) = LiveRows(refresh_tokens, now)
      ]_vars

\* a revocation or a login of one user finished while the unexpired row of
\* another user's session stayed in the table
C39_Witness ==
    \E c, q \in ReqIDs :
        /\ Issued(c) /\ Done(q) /\ Before(c, q)
        /\ rreq[q].kind \in {"revoke", "login"} /\ rreq[q].status = 200
        /\ rreq[q].user # rreq[c].user
        /\ \E row \in LiveRows(refresh_tokens, now) :
              row.token_hash = HashToken(rreq[c].token)

\* ------------------------------------------------------ stored principal

\* the claims of the token a request carries
ClaimsOf(req) == TokenClaims(AsToken(Split(req.header)[2]))

\* the protected paths written the way the server writes organization IDs
CanonicalPaths ==
    { <<Sl, Word("organizations")>> }
    \cup { <<Sl, Word("organizations"), Sl, UUIDText(o, "canonical")>> : o \in OrgIDs }
    \cup { <<Sl, Word("organizations"), Sl, UUIDText(o, "canonical"), Sl, Word("users")>> :
             o \in OrgIDs }

\* C35: the permission and organization gates are evaluated against the
\* principal's role, overrides and organization as stored when the request is
\* handled, not against the role and organization claims of the token: after
\* the stored role, overrides or organization changed, or the principal was
\* removed, a request with a still-unexpired token is decided by the stored
\* state (401 when the principal is gone).
C35_StoredPrincipalDecides ==
    [][\A r \in AuthIDs :
          (areq[r].pc = "getuser" /\ areq'[r].pc = "done") =>
              IF areq[r].user_id \notin DOMAIN users
              THEN /\ areq'[r].status = 401
                   /\ ~areq'[r].invoked /\ areq'[r].handler = "none"
              ELSE LET user == users[areq[r].user_id]
                       path == areq[r].path
                       allowed ==
                           /\ Required(path) \subseteq Granted(user)
                           /\ CarriesOrgID(path) => PathOrgID(path) = user.organization_id
                   IN  /\ areq'[r].ctx = user
                       /\ areq'[r].handler # "none" => allowed
                       /\ ~allowed => areq'[r].status = 403
                       /\ (allowed /\ path \in CanonicalPaths) => areq'[r].handler # "none"
      ]_vars

\* a token issued to an owner was presented after the stored role had become
\* sub_account, and the request to create an organization was answered 403
C35_Witness ==
    \E r \in AuthIDs :
        /\ areq[r].pc = "done" /\ areq[r].invoked
        /\ areq[r].path = <<Sl, Word("organizations")>>
        /\ ClaimsOf(areq[r]).role = "owner"
        /\ areq[r].ctx.role = "sub_account"
        /\ areq[r].status = 403 /\ areq[r].handler = "none"

\* ------------------------------------------------------ organization properties

TxDone(t) == txs[t].pc = "done"
Succeeded(t) == TxDone(t) /\ txs[t].err = NoError

SubAccountsOf(orgID) ==
    {a \in accounts : a.organization_id = orgID /\ a.role = "sub_account"}

\* C31: after any interleaving of AddUserToOrganization calls the number of
\* sub_account users of an organization never exceeds its max_sub_accounts, and
\* a call that returned ErrMaxSubAccounts added no user.
C31_SubAccountLimit ==
    /\ \A o \in organizations : Cardinality(SubAccountsOf(o.id)) <= o.max_sub_accounts
    /\ \A t \in TxIDs :
          (TxDone(t) /\ txs[t].err = ErrMaxSubAccounts) =>
              \A a \in accounts : a.id # NewUserID(t)

\* C32: no two users share an email, and a CreateOrganization or
\* AddUserToOrganization call that found its email in use, at its count or at
\* its INSERT (two calls for the same new email running concurrently), returns
\* ErrEmailTaken, is answered 409 and leaves no row behind.
C32_EmailTaken ==
    /\ \A a, b \in accounts : a.email = b.email => a = b
    /\ \A t \in TxIDs :
          (/\ TxDone(t)
           /\ txs[t].kind \in {"CreateOrganization", "AddUserToOrganization"}
           /\ txs[t].err \in {ErrEmailTaken, ErrUniqueViolation})
          => /\ txs[t].err = ErrEmailTaken
             /\ txs[t].status = 409
             /\ \A a \in accounts : a.id # NewUserID(t)
             /\ \A o \in organizations : o.id # NewOrgID(t)

Creates == {"CreateOrganization", "CreateOrganizationWithOwner"}

\* C38: CreateOrganization and CreateOrganizationWithOwner are all-or-nothing:
\* after success there is exactly one new organization and one new user, with
\* role owner, whose organization_id is the new organization and whose ID is
\* the organization's owner_id; while the call runs and after any error neither
\* row exists; and every user row references exactly one organization.
C38_AllOrNothing ==
    /\ \A a \in accounts :
          Cardinality({o \in organizations : o.id = a.organization_id}) = 1
    /\ \A t \in TxIDs : txs[t].kind \in Creates =>
          IF Succeeded(t)
          THEN /\ {o \in organizations : o.id = NewOrgID(t) \/ o.owner_id = NewUserID(t)}
                    = {[id |-> NewOrgID(t), owner_id |-> NewUserID(t),
                        max_sub_accounts |-> MaxSubAccounts]}
               /\ {a \in accounts : a.id = NewUserID(t) \/ a.organization_id = NewOrgID(t)}
                    = {[id |-> NewUserID(t), email |-> txs[t].email,
                        organization_id |-> NewOrgID(t), role |-> "owner"]}
          ELSE /\ \A o \in organizations : o.id # NewOrgID(t)
               /\ \A a \in accounts : a.id # NewUserID(t)
    /\ Cardinality(organizations) =
          1 + Cardinality({t \in TxIDs : Succeeded(t) /\ txs[t].kind \in Creates})
    /\ Cardinality(accounts) = MaxSubAccounts + Cardinality({t \in TxIDs : Succeeded(t)})

\* one CreateOrganization succeeded, and one CreateOrganizationWithOwner failed
\* at its INSERT INTO users after its organization had been inserted
C38_Witness ==
    \E t, q \in TxIDs :
        /\ Succeeded(t) /\ txs[t].kind = "CreateOrganization"
        /\ TxDone(q) /\ txs[q].kind = "CreateOrganizationWithOwner"
        /\ txs[q].err = ErrUniqueViolation

\* ------------------------------------------------------ callback properties

\* callback c has an effect in this step: the code is exchanged, a user or an
\* organization is created, an access token is issued or a refresh session is
\* created
Effect(c) ==
    /\ callbacks'[c] # callbacks[c]
    /\ \/ callbacks'[c].exchanged # callbacks[c].exchanged
       \/ callbacks'[c].pc \in {"exchange", "userinfo", "lookup", "create", "token", "session"}
       \/ organizations' # organizations
       \/ accounts' # accounts
       \/ accessTokens' # accessTokens
       \/ refresh_tokens' # refresh_tokens

\* C34: handleGoogleCallback checks the state before any other effect: when
\* ValidateAndDeleteState returned false the answer is 400, and the code is
\* never exchanged, no user or organization is created, no access token is
\* issued and no refresh session is created; nothing of this happens before
\* the state was checked either.
C34_StateCheckedFirst ==
    [][/\ \A c \in CallIDs :
            Effect(c) => vcall[c].pc = "done" /\ vcall[c].result
       /\ \A c \in CallIDs :
            (callbacks'[c] # callbacks[c] /\ vcall[c].pc = "done" /\ ~vcall[c].result) =>
                callbacks'[c] = [IdleCallback EXCEPT !.pc = "done", !.status = 400]
       /\ (\/ organizations' # organizations \/ accounts' # accounts
           \/ accessTokens' # accessTokens \/ refresh_tokens' # refresh_tokens) =>
            \E c \in CallIDs : Effect(c)
      ]_vars

\* one callback was answered with its tokens, and a second callback replaying
\* the same state was answered 400
C34_Witness ==
    \E c, d \in CallIDs :
        /\ vcall[c].key = vcall[d].key /\ c # d
        /\ callbacks[c].pc = "done" /\ callbacks[c].status = 200
        /\ vcall[d].pc = "done" /\ ~vcall[d].result
        /\ callbacks[d].pc = "done" /\ callbacks[d].status = 400

\* C36: once ValidateAndDeleteState(T) has taken T, and after it returned, true
\* or false, T is not in the store: a failed validation of an expired entry
\* removed it, and a callback that passed the state check and failed a later
\* step has consumed its state.
C36_StateConsumed ==
    /\ \A c \in CallIDs :
          vcall[c].pc \in {"loaded", "done"} => vcall[c].key \notin DOMAIN states
    /\ \A c \in CallIDs :
          callbacks[c].pc # "idle" /\ vcall[c].pc = "done" =>
              vcall[c].key \notin DOMAIN states

\* a callback passed the state check and was answered 500 at a later step, and
\* another callback presented an expired state and was answered 400
C36_Witness ==
    \E c, d \in CallIDs :
        /\ vcall[c].pc = "done" /\ vcall[c].result
        /\ callbacks[c].pc = "done" /\ callbacks[c].status = 500
        /\ vcall[d].pc = "done" /\ vcall[d].found /\ ~vcall[d].result
        /\ callbacks[d].pc = "done" /\ callbacks[d].status = 400

\* ------------------------------------------------------ cleanup liveness

\* the entry stored under k is past its expiry
PastExpiry(k) == k \in DOMAIN states /\ now > states[k]

\* C37: with a cleanup ticker that keeps firing, every state entry that is past
\* its expiry is eventually gone from the store (or replaced by a newer entry
\* under the same key), also when no ValidateAndDeleteState call ever takes it.
C37_ExpiredEventuallySwept ==
    \A k \in StateKeys : PastExpiry(k) ~> ~PastExpiry(k)

\* an entry was stored once, no ValidateAndDeleteState call was made for its
\* key, its expiry has passed and the sweep has removed it
C37_Witness ==
    \E k \in StateKeys :
        /\ stored[k] = 1 /\ k \in DOMAIN logical /\ logical[k] < now
        /\ \A c \in CallIDs : vcall[c].key # k
        /\ k \notin DOMAIN states

====
